---- MODULE Spec2Model ----
(***************************************************************************)
(* geepNotesAPI: the filesystem-backed note store of model.js.             *)
(*                                                                         *)
(* Strings are sequences of one-character strings, a path is a sequence of *)
(* names, a tree is the set of its directories (paths relative to the      *)
(* tree's root, <<>> being the root itself) and a function from file paths *)
(* to file contents.  notes is <dirname>/notes and trash is                *)
(* <dirname>/trash.                                                        *)
(***************************************************************************)
EXTENDS Integers, Sequences, FiniteSets, TLC

VARIABLES notes, trash, now, last, deletes, mixed, tasks, calls

vars == <<notes, trash, now, last, deletes, mixed, tasks, calls>>

-----------------------------------------------------------------------------
(* Bounds of the model *)

\* the calls made in one behaviour, the ticks of the clock, the items of a batch
MaxCalls == 4
MaxTime == 2
MaxBatch == 2
MaxBatches == 2

-----------------------------------------------------------------------------
(* Strings *)

WhiteSpace == {" ", "\t", "\n", "\r"}

UpperCase ==
    <<"A", "B", "C", "D", "E", "F", "G", "H", "I", "J", "K", "L", "M",
      "N", "O", "P", "Q", "R", "S", "T", "U", "V", "W", "X", "Y", "Z">>
LowerCase ==
    <<"a", "b", "c", "d", "e", "f", "g", "h", "i", "j", "k", "l", "m",
      "n", "o", "p", "q", "r", "s", "t", "u", "v", "w", "x", "y", "z">>

UpperToLower ==
    [c \in {UpperCase[i] : i \in 1..Len(UpperCase)} |->
        LowerCase[CHOOSE i \in 1..Len(UpperCase) : UpperCase[i] = c]]

toLowerCase(s) ==
    [i \in 1..Len(s) |-> IF s[i] \in DOMAIN UpperToLower THEN UpperToLower[s[i]] ELSE s[i]]

RECURSIVE trimStart(_)
trimStart(s) ==
    IF s # <<>> /\ Head(s) \in WhiteSpace THEN trimStart(Tail(s)) ELSE s

RECURSIVE trimEnd(_)
trimEnd(s) ==
    IF s # <<>> /\ s[Len(s)] \in WhiteSpace THEN trimEnd(SubSeq(s, 1, Len(s) - 1)) ELSE s

trim(s) == trimEnd(trimStart(s))

\* s.replace(/[bad]/g, '-')
replaceAll(s, bad) == [i \in 1..Len(s) |-> IF s[i] \in bad THEN "-" ELSE s[i]]

\* s.split(/[seps]/): the pieces between separators, empty pieces kept
RECURSIVE split(_, _)
split(s, seps) ==
    IF s = <<>> THEN << <<>> >>
    ELSE LET rest == split(Tail(s), seps)
         IN  IF Head(s) \in seps
             THEN << <<>> >> \o rest
             ELSE << <<Head(s)>> \o Head(rest) >> \o Tail(rest)

\* parts.join(sep)
RECURSIVE join(_, _)
join(parts, sep) ==
    IF parts = <<>> THEN <<>>
    ELSE IF Len(parts) = 1 THEN parts[1]
    ELSE parts[1] \o sep \o join(Tail(parts), sep)

pathSep == <<"/">>

TitleChars == {"/", "\\", "?", "%", "*", ":", "|", "\"", "<", ">"}
GroupChars == TitleChars \cup {"."}

Truthy(s) == s # <<>>

\* mutant of sanitizePart: '.' is left in a group segment, as in a title
sanitizePartKeepDots(part) == replaceAll(part, TitleChars)

sanitizePart(part) == replaceAll(part, GroupChars)

\* mutant of sanitizeInput: the empty segments of the group are kept
sanitizeInputKeepEmpty(title, group) ==
    [safeTitle |-> replaceAll(trim(title), TitleChars),
     safeGroupParts |->
        LET parts == split(group, {"/", "\\"})
        IN  [i \in 1..Len(parts) |-> sanitizePart(parts[i])]]

sanitizeInput(title, group) ==
    [safeTitle |-> replaceAll(trim(title), TitleChars),
     safeGroupParts |->
        LET parts == split(group, {"/", "\\"})
        IN  SelectSeq([i \in 1..Len(parts) |-> sanitizePart(parts[i])], Truthy)]

jsonExt == <<".", "j", "s", "o", "n">>
trashName == <<"t", "r", "a", "s", "h">>

\* `${safeTitle}.json`
noteFileName(safeTitle) == safeTitle \o jsonExt

\* path.extname: from the last '.' on, '' when there is none or it leads the name
extname(name) ==
    LET dots == {i \in 2..Len(name) : name[i] = "."}
    IN  IF dots = {} THEN <<>>
        ELSE SubSeq(name, CHOOSE i \in dots : \A j \in dots : j <= i, Len(name))

-----------------------------------------------------------------------------
(* The filesystem *)

EmptyFiles == [p \in {} |-> 0]
AbsentTree == [dirs |-> {}, files |-> EmptyFiles]

IsPrefix(p, q) == Len(p) <= Len(q) /\ SubSeq(q, 1, Len(p)) = p
Prefixes(p) == {SubSeq(p, 1, n) : n \in 0..Len(p)}
IsChild(dir, p) == Len(p) = Len(dir) + 1 /\ SubSeq(p, 1, Len(dir)) = dir

\* fs.readdir(dir, {withFileTypes: true}); ENOENT when dir is no directory
readdir(tree, dir) ==
    IF dir \notin tree.dirs
    THEN [code |-> "ENOENT", entries |-> {}]
    ELSE IF "locked" \in DOMAIN tree /\ dir \in tree.locked
    THEN [code |-> "EACCES", entries |-> {}]
    ELSE [code |-> "OK",
          entries |->
            {[name |-> p[Len(p)], isDirectory |-> TRUE] : p \in {q \in tree.dirs : IsChild(dir, q)}}
            \cup
            {[name |-> p[Len(p)], isDirectory |-> FALSE] :
                p \in {q \in DOMAIN tree.files : IsChild(dir, q)}}]

\* fs.mkdir(dir, {recursive: true})
mkdir(tree, dir) == [tree EXCEPT !.dirs = @ \cup Prefixes(dir)]

\* mutant of writeFile: a write onto an existing document adds the written
\* document's newest version to the versions the file holds
writeFileMerging(tree, path, text) ==
    [tree EXCEPT !.files =
        [p \in DOMAIN @ \cup {path} |->
            IF p # path THEN @[p]
            ELSE IF path \in DOMAIN @ /\ @[path].kind = "json" /\ text.kind = "json"
                 THEN [text EXCEPT !.value.versions = <<@[1]>> \o tree.files[path].value.versions]
                 ELSE text]]

\* fs.writeFile(path, text)
writeFile(tree, path, text) ==
    [tree EXCEPT !.files = [p \in DOMAIN @ \cup {path} |-> IF p = path THEN text ELSE @[p]]]

\* mutant of unlink: the file is copied, not moved
unlinkNothing(tree, path) == tree

\* mutant of unlink: the directory the file leaves empty is removed with it
unlinkPruning(tree, path) ==
    LET dir == SubSeq(path, 1, Len(path) - 1)
        files == [p \in DOMAIN tree.files \ {path} |-> tree.files[p]]
        empty == /\ dir # <<>>
                 /\ \A p \in DOMAIN files : ~IsPrefix(dir, p)
                 /\ \A d \in tree.dirs : d # dir => ~IsPrefix(dir, d)
    IN  [dirs |-> IF empty THEN tree.dirs \ {dir} ELSE tree.dirs, files |-> files]

\* a tree without the file at path
unlink(tree, path) ==
    [tree EXCEPT !.files = [p \in DOMAIN @ \ {path} |-> @[p]]]

\* fs.rmdir(dir)
rmdir(tree, dir) == [tree EXCEPT !.dirs = @ \ {dir}]

\* fs.readFile(path, 'utf8'): the text of the file, or the error thrown for a
\* missing file or for one that cannot be read
readFile(tree, path) ==
    IF path \in tree.dirs THEN [code |-> "EISDIR", text |-> [kind |-> "none"]]
    ELSE IF path \notin DOMAIN tree.files THEN [code |-> "ENOENT", text |-> [kind |-> "none"]]
    ELSE IF tree.files[path].kind = "unreadable"
         THEN [code |-> "EACCES", text |-> [kind |-> "none"]]
         ELSE [code |-> "OK", text |-> tree.files[path]]

-----------------------------------------------------------------------------
(* Documents *)

Undefined == "undefined"

\* x || ''
orEmpty(x) == IF x = Undefined \/ x = "" THEN "" ELSE x

NoVersion == [content |-> "", createdDate |-> 0]
NoDoc == [title |-> <<>>, group |-> <<>>, relativePath |-> <<>>, createdDate |-> 0,
          versions |-> <<>>]

\* JSON.stringify(noteJsonData, null, 2) and JSON.parse: a text is either the
\* serialisation of a value or not JSON at all
JSONstringify(value) == [kind |-> "json", value |-> value]
JSONparse(text) ==
    IF text.kind = "json" THEN [ok |-> TRUE, value |-> text.value]
    ELSE [ok |-> FALSE, value |-> NoDoc]

\* mutant of foundDirNames: the names are compared as they are
foundDirNamesExact(tree, currentPath, part) ==
    {e.name : e \in {x \in readdir(tree, currentPath).entries :
                        x.isDirectory /\ x.name = part}}

\* entries.find(e => e.isDirectory() && e.name.toLowerCase() === part.toLowerCase())?.name
\* readdir's order is the filesystem's: any matching entry may be the first
foundDirNames(tree, currentPath, part) ==
    {e.name : e \in {x \in readdir(tree, currentPath).entries :
                        x.isDirectory /\ toLowerCase(x.name) = toLowerCase(part)}}

\* foundDirName || part
partsToUse(tree, currentPath, part) ==
    IF foundDirNames(tree, currentPath, part) = {} THEN {part}
    ELSE foundDirNames(tree, currentPath, part)

\* the loop of determineTargetPath from currentPath on: the possible actualPathParts
RECURSIVE resolveFrom(_, _, _)
resolveFrom(tree, actual, rest) ==
    IF rest = <<>> THEN {actual}
    ELSE UNION {resolveFrom(tree, Append(actual, n), Tail(rest)) :
                    n \in partsToUse(tree, actual, Head(rest))}

determineTargetPath(tree, safeGroupParts) == resolveFrom(tree, <<>>, safeGroupParts)

\* mutant of prepareNoteData: a note that is in the trash and not in the live tree
\* is continued from the trashed document
prepareNoteDataRestore(tree, filePath, safeTitle, finalGroupPath, relativePath, newVersion, t) ==
    LET fresh == [title |-> safeTitle, group |-> finalGroupPath,
                  relativePath |-> relativePath, createdDate |-> t,
                  versions |-> <<newVersion>>]
        found == IF filePath \in DOMAIN tree.files THEN tree.files
                 ELSE IF filePath \in DOMAIN trash.files THEN trash.files
                 ELSE tree.files
    IN  IF filePath \notin DOMAIN found THEN fresh
        ELSE LET parsed == JSONparse(found[filePath])
             IN  IF ~parsed.ok THEN fresh
                 ELSE [parsed.value EXCEPT !.versions = <<newVersion>> \o @,
                                           !.title = safeTitle,
                                           !.group = finalGroupPath,
                                           !.relativePath = relativePath]

\* mutant of prepareNoteData: the new version is pushed, not unshifted
prepareNoteDataPush(tree, filePath, safeTitle, finalGroupPath, relativePath, newVersion, t) ==
    LET fresh == [title |-> safeTitle, group |-> finalGroupPath,
                  relativePath |-> relativePath, createdDate |-> t,
                  versions |-> <<newVersion>>]
    IN  IF filePath \notin DOMAIN tree.files THEN fresh
        ELSE LET parsed == JSONparse(tree.files[filePath])
             IN  IF ~parsed.ok THEN fresh
                 ELSE [parsed.value EXCEPT !.versions = @ \o <<newVersion>>,
                                           !.title = safeTitle,
                                           !.group = finalGroupPath,
                                           !.relativePath = relativePath]

\* mutant of prepareNoteData: the versions the file holds are not carried over
prepareNoteDataFresh(tree, filePath, safeTitle, finalGroupPath, relativePath, newVersion, t) ==
    LET fresh == [title |-> safeTitle, group |-> finalGroupPath,
                  relativePath |-> relativePath, createdDate |-> t,
                  versions |-> <<newVersion>>]
    IN  IF filePath \notin DOMAIN tree.files THEN fresh
        ELSE LET parsed == JSONparse(tree.files[filePath])
             IN  IF ~parsed.ok THEN fresh
                 ELSE [parsed.value EXCEPT !.versions = <<newVersion>>,
                                           !.title = safeTitle,
                                           !.group = finalGroupPath,
                                           !.relativePath = relativePath]

prepareNoteData(tree, filePath, safeTitle, finalGroupPath, relativePath, newVersion, t) ==
    LET fresh == [title |-> safeTitle, group |-> finalGroupPath,
                  relativePath |-> relativePath, createdDate |-> t,
                  versions |-> <<newVersion>>]
    IN  IF filePath \notin DOMAIN tree.files THEN fresh
        ELSE LET parsed == JSONparse(tree.files[filePath])
             IN  IF ~parsed.ok THEN fresh
                 ELSE [parsed.value EXCEPT !.versions = <<newVersion>> \o @,
                                           !.title = safeTitle,
                                           !.group = finalGroupPath,
                                           !.relativePath = relativePath]

\* the error prepareNoteData catches, '' when it reads a document: the code of
\* the read error, SyntaxError for a text that is no JSON, TypeError for the JSON
\* null, whose property versions cannot be read
prepareNoteDataError(tree, filePath) ==
    LET read == readFile(tree, filePath)
    IN  IF read.code # "OK" THEN read.code
        ELSE IF read.text.kind = "null" THEN "TypeError"
        ELSE IF ~JSONparse(read.text).ok THEN "SyntaxError"
        ELSE ""

\* mutant of prepareNoteDataThrows: a text that is no JSON is an unexpected error
\* too
prepareNoteDataThrowsSyntax(tree, filePath) ==
    prepareNoteDataError(tree, filePath) \notin {"", "ENOENT"}

\* the catch of prepareNoteData throws again whatever is neither ENOENT nor a
\* SyntaxError
prepareNoteDataThrows(tree, filePath) ==
    prepareNoteDataError(tree, filePath) \notin {"", "ENOENT", "SyntaxError"}

\* fs.mkdir(dir, {recursive: true}) fails when a file lies on the way
mkdirThrows(tree, dir) == \E p \in Prefixes(dir) : p \in DOMAIN tree.files

\* fs.writeFile(path, text) fails when the directory is gone, when path is a
\* directory and when the file is read-only
writeFileThrows(tree, path) ==
    \/ SubSeq(path, 1, Len(path) - 1) \notin tree.dirs
    \/ path \in tree.dirs
    \/ path \in DOMAIN tree.files /\ "readonly" \in DOMAIN tree.files[path]

-----------------------------------------------------------------------------
(* One item of a createNotes batch, from one await to the next *)

taskFilePath(task) == Append(task.actual, noteFileName(task.safeTitle))

\* mutant of taskStart: the group trash is not refused
taskStartAnyGroup(note) ==
    LET s == sanitizeInput(note.title, note.group)
    IN  [pc |-> IF s.safeTitle = <<>> THEN "skipped"
                ELSE IF s.safeGroupParts = <<>> THEN "mkdir" ELSE "readdir",
         note |-> note, safeTitle |-> s.safeTitle, parts |-> s.safeGroupParts,
         actual |-> <<>>, newVersion |-> NoVersion, data |-> NoDoc, read |-> NoDoc,
         error |-> ""]

\* the synchronous head of the map callback: sanitize and validate
taskStart(note) ==
    LET s == sanitizeInput(note.title, note.group)
        skip == \/ s.safeTitle = <<>>
                \/ /\ s.safeGroupParts # <<>>
                   /\ toLowerCase(s.safeGroupParts[1]) = trashName
    IN  [pc |-> IF skip THEN "skipped"
                ELSE IF s.safeGroupParts = <<>> THEN "mkdir" ELSE "readdir",
         note |-> note, safeTitle |-> s.safeTitle, parts |-> s.safeGroupParts,
         actual |-> <<>>, newVersion |-> NoVersion, data |-> NoDoc, read |-> NoDoc,
         error |-> ""]

taskEnded(task) == task.pc \in {"processed", "skipped"}

\* the outcomes of the task's next filesystem call at time t
taskSteps(task, tree, t) ==
    CASE task.pc = "readdir" ->
            {[task |-> [task EXCEPT !.actual = Append(@, n),
                                    !.pc = IF Len(task.actual) + 1 = Len(task.parts)
                                           THEN "mkdir" ELSE "readdir"],
              tree |-> tree] :
                n \in partsToUse(tree, task.actual, task.parts[Len(task.actual) + 1])}
      [] task.pc = "mkdir" ->
            IF mkdirThrows(tree, task.actual)
            THEN {[task |-> [task EXCEPT !.pc = "skipped", !.error = "EEXIST"],
                   tree |-> tree]}
            ELSE
            {[task |-> [task EXCEPT !.pc = "readFile",
                                    !.newVersion = [content |-> orEmpty(task.note.content),
                                                    createdDate |-> t]],
              tree |-> mkdir(tree, task.actual)]}
      [] task.pc = "readFile" ->
            IF prepareNoteDataThrows(tree, taskFilePath(task))
            THEN {[task |-> [task EXCEPT
                               !.pc = "skipped",
                               !.error = prepareNoteDataError(tree, taskFilePath(task))],
                   tree |-> tree]}
            ELSE
            {[task |-> [task EXCEPT
                          !.pc = "writeFile",
                          !.error = prepareNoteDataError(tree, taskFilePath(task)),
                          !.read = IF taskFilePath(task) \in DOMAIN tree.files
                                      /\ JSONparse(tree.files[taskFilePath(task)]).ok
                                   THEN JSONparse(tree.files[taskFilePath(task)]).value
                                   ELSE NoDoc,
                          !.data = prepareNoteData(tree, taskFilePath(task), task.safeTitle,
                                                   join(task.actual, pathSep),
                                                   join(taskFilePath(task), pathSep),
                                                   task.newVersion, t)],
              tree |-> tree]}
      [] task.pc = "writeFile" ->
            IF ~writeFileThrows(tree, taskFilePath(task))
            THEN {[task |-> [task EXCEPT !.pc = "processed"],
                   tree |-> writeFile(tree, taskFilePath(task), JSONstringify(task.data))]}
            ELSE {[task |-> [task EXCEPT !.pc = "skipped", !.error = "EACCES"],
                   tree |-> tree]}
      [] OTHER -> {}

\* one item run alone to its end: mkdir's continuation reads the clock at t1,
\* readFile's at t2
RECURSIVE runTask(_, _, _, _)
runTask(task, tree, t1, t2) ==
    IF taskEnded(task) THEN {[task |-> task, tree |-> tree]}
    ELSE UNION {runTask(o.task, o.tree, t1, t2) :
                    o \in taskSteps(task, tree, IF task.pc = "mkdir" THEN t1 ELSE t2)}

-----------------------------------------------------------------------------
(* Listing *)

\* mutant of findJsonFiles: subdirectories are not searched
findJsonFilesFlat(tree, dir) ==
    {[filePath |-> Append(dir, e.name),
      group |-> IF dir = <<>> THEN <<".">> ELSE join(dir, pathSep),
      relativePath |-> join(Append(dir, e.name), pathSep)] :
        e \in {x \in readdir(tree, dir).entries :
                  ~x.isDirectory /\ toLowerCase(extname(x.name)) = jsonExt}}

\* mutant of findJsonFiles: a directory named trash is skipped wherever it lies
RECURSIVE findJsonFilesAnyTrash(_, _)
findJsonFilesAnyTrash(tree, dir) ==
    UNION {IF e.isDirectory
           THEN IF e.name = trashName THEN {}
                ELSE findJsonFilesAnyTrash(tree, Append(dir, e.name))
           ELSE IF toLowerCase(extname(e.name)) = jsonExt
                THEN {[filePath |-> Append(dir, e.name),
                       group |-> IF dir = <<>> THEN <<".">> ELSE join(dir, pathSep),
                       relativePath |-> join(Append(dir, e.name), pathSep)]}
                ELSE {} :
           e \in readdir(tree, dir).entries}

\* findJsonFiles(dir, baseDir) with baseDir the tree's root
RECURSIVE findJsonFiles(_, _)
findJsonFiles(tree, dir) ==
    UNION {IF e.isDirectory
           THEN IF e.name = trashName /\ dir = <<>> THEN {}
                ELSE findJsonFiles(tree, Append(dir, e.name))
           ELSE IF toLowerCase(extname(e.name)) = jsonExt
                THEN {[filePath |-> Append(dir, e.name),
                       group |-> IF dir = <<>> THEN <<".">> ELSE join(dir, pathSep),
                       relativePath |-> join(Append(dir, e.name), pathSep)]}
                ELSE {} :
           e \in readdir(tree, dir).entries}

\* the title of a listed note whose document has no title key
UndefinedTitle == <<Undefined>>

\* mutant of noteData: a file that cannot be read or parsed is listed all the same
noteDataNoCatch(tree, f) ==
    LET read == readFile(tree, f.filePath)
        parsed == IF read.code = "OK" THEN JSONparse(read.text)
                  ELSE [ok |-> FALSE, value |-> NoDoc]
        jsonData == parsed.value
        hasLatest == "versions" \in DOMAIN jsonData /\ Len(jsonData.versions) > 0
    IN  [ok |-> TRUE,
         filePath |-> f.filePath,
         title |-> IF "title" \in DOMAIN jsonData THEN jsonData.title ELSE UndefinedTitle,
         content |-> IF hasLatest THEN orEmpty(jsonData.versions[1].content) ELSE "",
         group |-> IF f.group = <<".">> THEN <<>> ELSE f.group,
         createdDate |-> IF "createdDate" \in DOMAIN jsonData THEN jsonData.createdDate ELSE 0,
         modifiedDate |-> IF hasLatest THEN jsonData.versions[1].createdDate ELSE 0,
         relativePath |-> jsonData.relativePath]

\* mutant of noteData: the last element of versions is taken for the latest
noteDataOldest(tree, f) ==
    LET read == readFile(tree, f.filePath)
        parsed == IF read.code = "OK" THEN JSONparse(read.text)
                  ELSE [ok |-> FALSE, value |-> NoDoc]
        jsonData == parsed.value
        hasLatest == "versions" \in DOMAIN jsonData /\ Len(jsonData.versions) > 0
        latest == Len(jsonData.versions)
    IN  [ok |-> parsed.ok,
         filePath |-> f.filePath,
         title |-> IF "title" \in DOMAIN jsonData THEN jsonData.title ELSE UndefinedTitle,
         content |-> IF hasLatest THEN orEmpty(jsonData.versions[latest].content) ELSE "",
         group |-> IF f.group = <<".">> THEN <<>> ELSE f.group,
         createdDate |-> IF "createdDate" \in DOMAIN jsonData THEN jsonData.createdDate ELSE 0,
         modifiedDate |-> IF hasLatest THEN jsonData.versions[latest].createdDate ELSE 0,
         relativePath |-> jsonData.relativePath]

\* the projection of one found file; ok is FALSE for a file the listing skips.
\* filePath tells the notes of the returned array apart
noteData(tree, f) ==
    LET read == readFile(tree, f.filePath)
        parsed == IF read.code = "OK" THEN JSONparse(read.text)
                  ELSE [ok |-> FALSE, value |-> NoDoc]
        jsonData == parsed.value
        hasLatest == "versions" \in DOMAIN jsonData /\ Len(jsonData.versions) > 0
    IN  [ok |-> parsed.ok,
         filePath |-> f.filePath,
         title |-> IF "title" \in DOMAIN jsonData THEN jsonData.title ELSE UndefinedTitle,
         content |-> IF hasLatest THEN orEmpty(jsonData.versions[1].content) ELSE "",
         group |-> IF f.group = <<".">> THEN <<>> ELSE f.group,
         createdDate |-> IF "createdDate" \in DOMAIN jsonData THEN jsonData.createdDate ELSE 0,
         modifiedDate |-> IF hasLatest THEN jsonData.versions[1].createdDate ELSE 0,
         relativePath |-> jsonData.relativePath]

\* getAllNotes(null, viewTrash): the notes listed, one per file found and parsed
notesData(tree) ==
    IF <<>> \notin tree.dirs THEN [code |-> "ENOENT", notes |-> {}]
    ELSE IF /\ "locked" \in DOMAIN tree
            /\ \E d \in tree.locked \cap tree.dirs : ~(Len(d) >= 1 /\ d[1] = trashName)
    THEN [code |-> "EACCES", notes |-> {}]
    ELSE [code |-> "OK",
          notes |-> {n \in {noteData(tree, f) : f \in findJsonFiles(tree, <<>>)} : n.ok}]

getAllNotes(viewTrash) == notesData(IF viewTrash THEN trash ELSE notes)

\* countJsonFilesRecursive(dir) of emptyTrash
RECURSIVE countJsonFilesRecursive(_, _)
RECURSIVE countEntries(_, _, _)
countEntries(tree, dir, entries) ==
    IF entries = {} THEN 0
    ELSE LET entry == CHOOSE e \in entries : TRUE
         IN  (IF entry.isDirectory
              THEN countJsonFilesRecursive(tree, Append(dir, entry.name))
              ELSE IF toLowerCase(extname(entry.name)) = jsonExt THEN 1 ELSE 0)
             + countEntries(tree, dir, entries \ {entry})

\* mutant of countJsonFilesRecursive: only the files of dir itself are counted
countJsonFilesTopLevel(tree, dir) ==
    Cardinality({e \in readdir(tree, dir).entries :
                    ~e.isDirectory /\ toLowerCase(extname(e.name)) = jsonExt})

countJsonFilesRecursive(tree, dir) == countEntries(tree, dir, readdir(tree, dir).entries)

-----------------------------------------------------------------------------
(* Dates *)

(* A time value is the number of milliseconds since 1970-01-01T00:00:00.000Z, *)
(* as Date.prototype.getTime gives it.  A date a document stores is the time  *)
(* value of its ISO string; InvalidDateValue stands for a stored string no    *)
(* Date can be made of and 0 for a date the document does not have.           *)

Digits == <<"0", "1", "2", "3", "4", "5", "6", "7", "8", "9">>
IsDigit(c) == \E i \in 1..Len(Digits) : Digits[i] = c
DigitValue(c) == (CHOOSE i \in 1..Len(Digits) : Digits[i] = c) - 1

\* the number a sequence of digits writes
RECURSIVE number(_)
number(s) ==
    IF s = <<>> THEN 0 ELSE 10 * number(SubSeq(s, 1, Len(s) - 1)) + DigitValue(s[Len(s)])

\* s has the shape of pattern, in which "#" stands for any digit
matches(s, pattern) ==
    /\ Len(s) = Len(pattern)
    /\ \A i \in 1..Len(pattern) :
          IF pattern[i] = "#" THEN IsDigit(s[i]) ELSE s[i] = pattern[i]

\* /^\d{4}-\d{2}-\d{2}$/
DayPattern == <<"#", "#", "#", "#", "-", "#", "#", "-", "#", "#">>

\* 'T00:00:00.000Z'
StartOfDay == <<"T", "0", "0", ":", "0", "0", ":", "0", "0", ".", "0", "0", "0", "Z">>

\* YYYY-MM-DDTHH:mm:ss.sssZ, the format of Date.prototype.toISOString
IsoPattern ==
    DayPattern \o <<"T", "#", "#", ":", "#", "#", ":", "#", "#", ".", "#", "#", "#", "Z">>

\* Www, DD Mmm YYYY HH:mm:ss GMT, the format of Date.prototype.toUTCString, which
\* Date.parse accepts as well
UTCStringPattern ==
    <<",", " ", "#", "#", " ">> \o <<" ", "#", "#", "#", "#", " ">>
        \o <<"#", "#", ":", "#", "#", ":", "#", "#", " ", "G", "M", "T">>

DayNames == {<<"S", "u", "n">>, <<"M", "o", "n">>, <<"T", "u", "e">>, <<"W", "e", "d">>,
             <<"T", "h", "u">>, <<"F", "r", "i">>, <<"S", "a", "t">>}

MonthNames == << <<"J", "a", "n">>, <<"F", "e", "b">>, <<"M", "a", "r">>, <<"A", "p", "r">>,
                 <<"M", "a", "y">>, <<"J", "u", "n">>, <<"J", "u", "l">>, <<"A", "u", "g">>,
                 <<"S", "e", "p">>, <<"O", "c", "t">>, <<"N", "o", "v">>, <<"D", "e", "c">> >>

\* what getTime gives for an invalid Date
NaN == -1

IsLeapYear(y) == (y % 4 = 0 /\ y % 100 # 0) \/ y % 400 = 0

DaysInMonth(y, m) ==
    IF m = 2 THEN (IF IsLeapYear(y) THEN 29 ELSE 28)
    ELSE IF m \in {4, 6, 9, 11} THEN 30 ELSE 31

RECURSIVE DaysBeforeMonth(_, _)
DaysBeforeMonth(y, m) ==
    IF m = 1 THEN 0 ELSE DaysBeforeMonth(y, m - 1) + DaysInMonth(y, m - 1)

\* the days from 1970-01-01 to the first day of year y, y >= 1970
DayFromYear(y) ==
    365 * (y - 1970) + ((y - 1969) \div 4) - ((y - 1901) \div 100) + ((y - 1601) \div 400)

\* the time value of a date and time of day in UTC, NaN when a field is out of range
MakeDate(y, m, d, h, mi, sec, ms) ==
    IF /\ y >= 1970 /\ m \in 1..12 /\ d \in 1..DaysInMonth(y, m)
       /\ h \in 0..23 /\ mi \in 0..59 /\ sec \in 0..59
    THEN (((DayFromYear(y) + DaysBeforeMonth(y, m) + d - 1) * 24 + h) * 60 + mi) * 60000
            + sec * 1000 + ms
    ELSE NaN

\* new Date(dateString).getTime() for the formats Date.parse has to know: the ISO
\* format and the format of toUTCString.  A string of neither format is taken as
\* one no engine parses.
newDate(dateString) ==
    IF matches(dateString, IsoPattern)
    THEN MakeDate(number(SubSeq(dateString, 1, 4)), number(SubSeq(dateString, 6, 7)),
                  number(SubSeq(dateString, 9, 10)), number(SubSeq(dateString, 12, 13)),
                  number(SubSeq(dateString, 15, 16)), number(SubSeq(dateString, 18, 19)),
                  number(SubSeq(dateString, 21, 23)))
    ELSE IF /\ Len(dateString) = 29
            /\ SubSeq(dateString, 1, 3) \in DayNames
            /\ \E m \in 1..12 : SubSeq(dateString, 9, 11) = MonthNames[m]
            /\ matches(SubSeq(dateString, 4, 8) \o SubSeq(dateString, 12, 29), UTCStringPattern)
    THEN MakeDate(number(SubSeq(dateString, 13, 16)),
                  CHOOSE m \in 1..12 : SubSeq(dateString, 9, 11) = MonthNames[m],
                  number(SubSeq(dateString, 6, 7)), number(SubSeq(dateString, 18, 19)),
                  number(SubSeq(dateString, 21, 22)), number(SubSeq(dateString, 24, 25)), 0)
    ELSE NaN

\* parseDate(filters[key]): null for a key that is absent or empty, the Date, or
\* the TypeError thrown
parseDate(filters, key) ==
    IF key \notin DOMAIN filters \/ filters[key] = <<>>
    THEN [kind |-> "null", time |-> 0]
    ELSE LET dateString == IF matches(filters[key], DayPattern)
                           THEN filters[key] \o StartOfDay ELSE filters[key]
         IN  IF newDate(dateString) = NaN
             THEN [kind |-> "TypeError", time |-> 0]
             ELSE [kind |-> "Date", time |-> newDate(dateString)]

InvalidDateValue == NaN

-----------------------------------------------------------------------------
(* The filters of getAllNotes *)

\* s.includes(sub)
includes(s, sub) ==
    \E i \in 0..(Len(s) - Len(sub)) : SubSeq(s, i + 1, i + Len(sub)) = sub

\* groups.map(g => g.replace(/[\\/]/g, path.sep)).includes(note.group)
keepByGroups(note, filters) ==
    ("groups" \in DOMAIN filters /\ filters.groups # <<>>) =>
        \E i \in 1..Len(filters.groups) :
            note.group = [k \in 1..Len(filters.groups[i]) |->
                            IF filters.groups[i][k] \in {"/", "\\"} THEN pathSep[1]
                            ELSE filters.groups[i][k]]

\* mutant of keepByDate: the bounds are inclusive
keepByDateInclusive(note, beforeDate, afterDate) ==
    IF note.createdDate # 0
    THEN IF note.createdDate = InvalidDateValue THEN TRUE
         ELSE /\ ~(beforeDate.kind = "Date" /\ note.createdDate > beforeDate.time)
              /\ ~(afterDate.kind = "Date" /\ note.createdDate < afterDate.time)
    ELSE ~(beforeDate.kind = "Date" \/ afterDate.kind = "Date")

\* the filter by createdDate: a note whose createdDate is no date passes, a note
\* without createdDate does not pass a date filter
keepByDate(note, beforeDate, afterDate) ==
    IF note.createdDate # 0
    THEN IF note.createdDate = InvalidDateValue THEN TRUE
         ELSE /\ ~(beforeDate.kind = "Date" /\ note.createdDate >= beforeDate.time)
              /\ ~(afterDate.kind = "Date" /\ note.createdDate <= afterDate.time)
    ELSE ~(beforeDate.kind = "Date" \/ afterDate.kind = "Date")

\* note.title.toLowerCase() of the titles filter throws a TypeError for a note
\* that has no title
titlesThrows(note, filters) ==
    /\ "titles" \in DOMAIN filters /\ filters.titles # <<>>
    /\ note.title = UndefinedTitle

\* titles.some(filterTitle => noteTitleLower.includes(filterTitle.toLowerCase()))
keepByTitles(note, filters) ==
    ("titles" \in DOMAIN filters /\ filters.titles # <<>>) =>
        \E i \in 1..Len(filters.titles) :
            includes(toLowerCase(note.title), toLowerCase(filters.titles[i]))

\* mutant of applyFilters: a note is kept when it passes any one of the filters
\* supplied
applyFiltersAny(notesRead, filters) ==
    LET beforeDate == parseDate(filters, "createdBefore")
        afterDate == parseDate(filters, "createdAfter")
    IN  IF beforeDate.kind = "TypeError" \/ afterDate.kind = "TypeError"
        THEN [code |-> "Invalid date", notes |-> {}]
        ELSE [code |-> "OK",
              notes |-> {note \in notesRead :
                            \/ /\ "groups" \in DOMAIN filters /\ filters.groups # <<>>
                               /\ keepByGroups(note, filters)
                            \/ /\ beforeDate.kind = "Date" \/ afterDate.kind = "Date"
                               /\ keepByDate(note, beforeDate, afterDate)
                            \/ /\ "titles" \in DOMAIN filters /\ filters.titles # <<>>
                               /\ note.title # UndefinedTitle
                               /\ keepByTitles(note, filters)
                            \/ /\ ~("groups" \in DOMAIN filters /\ filters.groups # <<>>)
                               /\ ~(beforeDate.kind = "Date" \/ afterDate.kind = "Date")
                               /\ ~("titles" \in DOMAIN filters /\ filters.titles # <<>>)}]

\* the filters applied to the notes read: only the keys groups, createdBefore,
\* createdAfter and titles are taken from the filter object
applyFilters(notesRead, filters) ==
    LET beforeDate == parseDate(filters, "createdBefore")
        afterDate == parseDate(filters, "createdAfter")
    IN  IF beforeDate.kind = "TypeError" \/ afterDate.kind = "TypeError"
        THEN [code |-> "Invalid date", notes |-> {}]
        ELSE IF \E note \in notesRead :
                    /\ keepByGroups(note, filters)
                    /\ keepByDate(note, beforeDate, afterDate)
                    /\ titlesThrows(note, filters)
        THEN [code |-> "TypeError", notes |-> {}]
        ELSE [code |-> "OK",
              notes |-> {note \in notesRead :
                            /\ keepByGroups(note, filters)
                            /\ keepByDate(note, beforeDate, afterDate)
                            /\ keepByTitles(note, filters)}]

\* getAllNotes(filters, viewTrash), filters being null when hasFilters is FALSE
getAllNotesFiltered(tree, filters, hasFilters) ==
    IF notesData(tree).code # "OK" THEN notesData(tree)
    ELSE IF hasFilters THEN applyFilters(notesData(tree).notes, filters)
    ELSE notesData(tree)

\* app.get('/notes'): the status sent
listStatus(code) ==
    IF code = "OK" THEN 200
    ELSE IF code = "ENOENT" THEN 404
    ELSE IF code = "Invalid date" THEN 400
    ELSE 500

-----------------------------------------------------------------------------
(* The inputs of the model *)

ValidTitle == <<" ", "a", ":">>
BlankTitle == <<" ">>
Titles == {ValidTitle, BlankTitle}
Groups == {<<>>, <<"W">>, <<"w", "/", "W">>, <<"W", "\\", "w">>}
TrashGroup == <<"T", "r", "a", "s", "h">>
Contents == {Undefined, "x"}
DotsTitle == <<".", ".">>
DotsGroup == <<".", ".", "/", ".", ".">>

\* the notes given to createNotes, the arguments of deleteNote and deleteEmptyGroup
NoteInputs ==
    {[title |-> ValidTitle, group |-> g, content |-> c] : g \in {<<>>, <<"W">>}, c \in Contents}
    \cup {[title |-> ValidTitle, group |-> <<"w", "/", "W">>, content |-> "x"],
          [title |-> ValidTitle, group |-> <<"W", "\\", "w">>, content |-> Undefined]}
    \cup {[title |-> BlankTitle, group |-> <<"W">>, content |-> "x"],
          [title |-> ValidTitle, group |-> TrashGroup, content |-> "x"],
          [title |-> DotsTitle, group |-> DotsGroup, content |-> "x"]}
DeleteInputs ==
    {[title |-> ValidTitle, group |-> g] : g \in Groups}
    \cup {[title |-> BlankTitle, group |-> <<"W">>],
          [title |-> ValidTitle, group |-> TrashGroup]}
GroupInputs == Groups \cup {TrashGroup}

Times(t) == {u \in {t, t + 1} : u <= MaxTime}

-----------------------------------------------------------------------------
(* The state *)

NoCall == [op |-> "none", title |-> <<>>, group |-> <<>>, content |-> "", error |-> "",
           processed |-> <<>>, skipped |-> <<>>, deletedCount |-> 0, t1 |-> 0, t2 |-> 0,
           body |-> [deleted |-> FALSE], status |-> 0, result |-> {},
           safeTitle |-> <<>>, safeGroupParts |-> <<>>]

ExistingRoot == [dirs |-> {<<>>}, files |-> EmptyFiles]

Init ==
    /\ notes \in {AbsentTree, ExistingRoot}
    /\ trash = AbsentTree
    /\ now = 1
    /\ last = NoCall
    /\ deletes = 0
    /\ mixed = FALSE
    /\ tasks = <<>>
    /\ calls = 0

Idle == tasks = <<>>

\* a call may start: none is running and the behaviour has calls left
CanCall == Idle /\ calls < MaxCalls

\* the result createNotes returns for the ended tasks, in the order they ended
createResult(ended) ==
    [processed |-> LET done == SelectSeq(ended, LAMBDA k : k.pc = "processed")
                   IN  [i \in 1..Len(done) |->
                           [title |-> done[i].safeTitle,
                            group |-> join(done[i].actual, pathSep)]],
     skipped |-> LET skip == SelectSeq(ended, LAMBDA k : k.pc = "skipped")
                 IN  [i \in 1..Len(skip) |->
                         [title |-> skip[i].note.title, group |-> skip[i].note.group]]]

-----------------------------------------------------------------------------
(* Statistics *)

\* name.endsWith(suffix)
endsWith(name, suffix) ==
    Len(name) >= Len(suffix) /\ SubSeq(name, Len(name) - Len(suffix) + 1, Len(name)) = suffix

\* stats.size of a file: the bytes of its text, more for every version
fileSize(text) ==
    IF text.kind # "json" THEN 1
    ELSE IF "versions" \in DOMAIN text.value THEN 2 + Len(text.value.versions) ELSE 2

\* getDirectorySize(directoryPath): code is the code of the error thrown, if any
RECURSIVE getDirectorySize(_, _)
RECURSIVE sizeOfEntries(_, _, _)
sizeOfEntries(tree, dir, entries) ==
    IF entries = {} THEN [code |-> "OK", size |-> 0]
    ELSE LET entry == CHOOSE e \in entries : TRUE
             one == IF entry.isDirectory
                    THEN getDirectorySize(tree, Append(dir, entry.name))
                    ELSE [code |-> "OK", size |-> fileSize(tree.files[Append(dir, entry.name)])]
             rest == sizeOfEntries(tree, dir, entries \ {entry})
         IN  IF one.code # "OK" THEN one
             ELSE IF rest.code # "OK" THEN rest
             ELSE [code |-> "OK", size |-> one.size + rest.size]

getDirectorySize(tree, directoryPath) ==
    LET r == readdir(tree, directoryPath)
    IN  IF r.code = "ENOENT" THEN [code |-> "OK", size |-> 0]
        ELSE IF r.code # "OK" THEN [code |-> r.code, size |-> 0]
        ELSE sizeOfEntries(tree, directoryPath, r.entries)

\* the filter getStats counts files by: name.toLowerCase().endsWith('.json')
jsonFilter(name) == endsWith(toLowerCase(name), jsonExt)

\* mutant of countItemsRecursive: the directories below dirPath are not searched
countItemsFlat(tree, dirPath, baseDir, type, filtered, excludeTopLevelDirs) ==
    LET r == readdir(tree, dirPath)
    IN  IF r.code = "ENOENT" THEN [code |-> "OK", count |-> 0]
        ELSE IF r.code # "OK" THEN [code |-> r.code, count |-> 0]
        ELSE [code |-> "OK",
              count |-> Cardinality({e \in r.entries :
                            /\ ~(e.isDirectory /\ dirPath = baseDir
                                    /\ e.name \in excludeTopLevelDirs)
                            /\ (type = "directory") = e.isDirectory
                            /\ filtered => jsonFilter(e.name)})]

\* countItemsRecursive(dirPath, baseDir, type, filter, excludeTopLevelDirs);
\* filtered says that the filter of getStats is given
RECURSIVE countItemsRecursive(_, _, _, _, _, _)
RECURSIVE countItems(_, _, _, _, _, _, _)
countItems(tree, dirPath, baseDir, type, filtered, excludeTopLevelDirs, entries) ==
    IF entries = {} THEN [code |-> "OK", count |-> 0]
    ELSE LET entry == CHOOSE e \in entries : TRUE
             isTopLevel == dirPath = baseDir
             rest == countItems(tree, dirPath, baseDir, type, filtered, excludeTopLevelDirs,
                                entries \ {entry})
             own == IF /\ (type = "directory" /\ entry.isDirectory)
                          \/ (type = "file" /\ ~entry.isDirectory)
                       /\ ~filtered \/ jsonFilter(entry.name)
                    THEN 1 ELSE 0
             below == IF entry.isDirectory
                      THEN countItemsRecursive(tree, Append(dirPath, entry.name), baseDir,
                                               type, filtered, excludeTopLevelDirs)
                      ELSE [code |-> "OK", count |-> 0]
         IN  IF entry.isDirectory /\ isTopLevel /\ entry.name \in excludeTopLevelDirs
             THEN rest
             ELSE IF below.code # "OK" THEN below
             ELSE IF rest.code # "OK" THEN rest
             ELSE [code |-> "OK", count |-> own + below.count + rest.count]

\* mutant of countItemsRecursive: a directory that does not exist is an error
countItemsNoCatch(tree, dirPath, baseDir, type, filtered, excludeTopLevelDirs) ==
    LET r == readdir(tree, dirPath)
    IN  IF r.code # "OK" THEN [code |-> r.code, count |-> 0]
        ELSE countItems(tree, dirPath, baseDir, type, filtered, excludeTopLevelDirs, r.entries)

countItemsRecursive(tree, dirPath, baseDir, type, filtered, excludeTopLevelDirs) ==
    LET r == readdir(tree, dirPath)
    IN  IF r.code = "ENOENT" THEN [code |-> "OK", count |-> 0]
        ELSE IF r.code # "OK" THEN [code |-> r.code, count |-> 0]
        ELSE countItems(tree, dirPath, baseDir, type, filtered, excludeTopLevelDirs, r.entries)

\* findEmptyDirsRecursive(dirPath, baseDir, excludeTopLevelDirs): the paths from
\* baseDir of the directories found empty; hasContent is the flag of the loop
RECURSIVE findEmptyDirsRecursive(_, _, _, _)
RECURSIVE findEmptyDirs(_, _, _, _, _)
findEmptyDirs(tree, dirPath, baseDir, excludeTopLevelDirs, entries) ==
    IF entries = {} THEN [code |-> "OK", emptyDirs |-> {}, hasContent |-> FALSE]
    ELSE LET entry == CHOOSE e \in entries : TRUE
             fullPath == Append(dirPath, entry.name)
             rest == findEmptyDirs(tree, dirPath, baseDir, excludeTopLevelDirs,
                                   entries \ {entry})
             sub == IF entry.isDirectory
                    THEN findEmptyDirsRecursive(tree, fullPath, baseDir, excludeTopLevelDirs)
                    ELSE [code |-> "OK", emptyDirs |-> {}]
             content == IF ~entry.isDirectory THEN TRUE
                        ELSE /\ fullPath \notin sub.emptyDirs
                             /\ \/ readdir(tree, fullPath).code # "OK"
                                \/ readdir(tree, fullPath).entries # {}
         IN  IF entry.isDirectory /\ dirPath = baseDir /\ entry.name \in excludeTopLevelDirs
             THEN rest
             ELSE IF sub.code # "OK" THEN [sub EXCEPT !.emptyDirs = {}] @@ [hasContent |-> TRUE]
             ELSE IF rest.code # "OK" THEN rest
             ELSE [code |-> "OK",
                   emptyDirs |-> sub.emptyDirs \cup rest.emptyDirs,
                   hasContent |-> content \/ rest.hasContent]

\* mutant of findEmptyDirsRecursive: a directory is empty when the loop found no
\* content in it, whatever the last readdir shows
findEmptyDirsNoFinalCheck(tree, dirPath, baseDir, excludeTopLevelDirs) ==
    LET r == readdir(tree, dirPath)
        found == findEmptyDirs(tree, dirPath, baseDir, excludeTopLevelDirs, r.entries)
    IN  IF r.code = "ENOENT" THEN [code |-> "OK", emptyDirs |-> {}]
        ELSE IF r.code # "OK" THEN [code |-> r.code, emptyDirs |-> {}]
        ELSE IF found.code # "OK" THEN [code |-> found.code, emptyDirs |-> {}]
        ELSE [code |-> "OK",
              emptyDirs |-> found.emptyDirs \cup
                    (IF ~found.hasContent /\ dirPath # baseDir THEN {dirPath} ELSE {})]

findEmptyDirsRecursive(tree, dirPath, baseDir, excludeTopLevelDirs) ==
    LET r == readdir(tree, dirPath)
        found == findEmptyDirs(tree, dirPath, baseDir, excludeTopLevelDirs, r.entries)
    IN  IF r.code = "ENOENT" THEN [code |-> "OK", emptyDirs |-> {}]
        ELSE IF r.code # "OK" THEN [code |-> r.code, emptyDirs |-> {}]
        ELSE IF found.code # "OK" THEN [code |-> found.code, emptyDirs |-> {}]
        ELSE [code |-> "OK",
              emptyDirs |-> found.emptyDirs \cup
                    (IF /\ ~found.hasContent
                        /\ dirPath # baseDir
                        /\ readdir(tree, dirPath).code = "OK"
                        /\ readdir(tree, dirPath).entries = {}
                     THEN {dirPath} ELSE {})]

NoStats ==
    [noteCount |-> 0, groupCount |-> 0, emptyGroups |-> {}, trashCount |-> 0,
     notesSize |-> 0, trashSize |-> 0]

\* getStats(): error is the message of the error thrown, '' when none is
getStats(notesTree, trashTree) ==
    LET noteCount == countItemsRecursive(notesTree, <<>>, <<>>, "file", TRUE, {trashName})
        groupCount == countItemsRecursive(notesTree, <<>>, <<>>, "directory", FALSE, {trashName})
        emptyGroups == findEmptyDirsRecursive(notesTree, <<>>, <<>>, {trashName})
        trashCount == countItemsRecursive(trashTree, <<>>, <<>>, "file", TRUE, {})
        notesSize == getDirectorySize(notesTree, <<>>)
        trashSize == getDirectorySize(trashTree, <<>>)
    IN  IF \/ noteCount.code # "OK" \/ groupCount.code # "OK" \/ emptyGroups.code # "OK"
           \/ trashCount.code # "OK" \/ notesSize.code # "OK" \/ trashSize.code # "OK"
        THEN [error |-> "Failed to calculate statistics", stats |-> NoStats]
        ELSE [error |-> "",
              stats |-> [noteCount |-> noteCount.count,
                         groupCount |-> groupCount.count,
                         emptyGroups |-> {join(d, pathSep) : d \in emptyGroups.emptyDirs},
                         trashCount |-> trashCount.count,
                         notesSize |-> notesSize.size,
                         trashSize |-> trashSize.size]]

-----------------------------------------------------------------------------
(* The API, one call at a time *)

\* the clock after a task ended: the last reading the task made of it
clockAfter(task, t1, t2) ==
    IF task.newVersion = NoVersion THEN now
    ELSE IF task.data.versions = <<task.newVersion>> THEN t2 ELSE t1

\* the clock advances; within a batch the items read the time at which it started
Tick ==
    /\ Idle
    /\ now < MaxTime
    /\ now' = now + 1
    /\ UNCHANGED <<notes, trash, last, deletes, mixed, tasks, calls>>

\* createNotes([note]): the only item runs from its first await to its last
CreateNotes(note) ==
    /\ CanCall
    /\ \E t2 \in Times(now) :
       \E o \in runTask(taskStart(note), notes, now, t2) :
          /\ t2 = clockAfter(o.task, now, t2)
          /\ notes' = o.tree
          /\ now' = t2
          /\ last' = [NoCall EXCEPT !.op = "createNotes",
                                    !.title = note.title, !.group = note.group,
                                    !.content = note.content,
                                    !.processed = createResult(<<o.task>>).processed,
                                    !.skipped = createResult(<<o.task>>).skipped,
                                    !.t1 = IF o.task.pc = "processed" THEN now ELSE 0,
                                    !.t2 = IF o.task.data.versions = <<o.task.newVersion>>
                                           THEN t2 ELSE 0]
          /\ mixed' = (mixed \/ (deletes > 0 /\ o.task.pc = "processed"))
    /\ calls' = calls + 1
    /\ UNCHANGED <<trash, deletes, tasks>>

\* an error thrown: fs errors carry a code, new Error(message) carries none
fsError(code) == [code |-> code, message |-> ""]
newError(message) == [code |-> "", message |-> message]

\* the catch block of deleteNote: the message of the error it throws
deleteNoteCatch(error) ==
    IF error.code = "ENOENT" THEN "Note not found" ELSE "Failed to move note to trash"

\* mutant of DeleteNote: the trash directory is made before the file is looked for
DeleteNoteMkdirFirst(title, group) ==
    /\ CanCall
    /\ calls' = calls + 1
    /\ LET s == sanitizeInput(title, group)
           call == [NoCall EXCEPT !.op = "deleteNote", !.title = title, !.group = group]
       IN  IF s.safeTitle = <<>>
           THEN /\ last' = [call EXCEPT !.error = "Invalid title provided for deletion"]
                /\ UNCHANGED <<notes, trash, deletes>>
           ELSE \E actual \in determineTargetPath(notes, s.safeGroupParts) :
                  LET originalFilePath == Append(actual, noteFileName(s.safeTitle))
                  IN  IF originalFilePath \notin DOMAIN notes.files
                      THEN /\ last' = [call EXCEPT !.error = deleteNoteCatch(fsError("ENOENT"))]
                           /\ trash' = mkdir(trash, actual)
                           /\ UNCHANGED <<notes, deletes>>
                      ELSE /\ trash' = writeFile(mkdir(trash, actual), originalFilePath,
                                                 notes.files[originalFilePath])
                           /\ notes' = unlink(notes, originalFilePath)
                           /\ deletes' = deletes + 1
                           /\ last' = call
    /\ UNCHANGED <<now, mixed, tasks>>

\* mutant of DeleteNote: the group is taken in the casing of the request
DeleteNoteExactCase(title, group) ==
    /\ CanCall
    /\ calls' = calls + 1
    /\ LET s == sanitizeInput(title, group)
           call == [NoCall EXCEPT !.op = "deleteNote", !.title = title, !.group = group]
       IN  IF s.safeTitle = <<>>
           THEN /\ last' = [call EXCEPT !.error = "Invalid title provided for deletion"]
                /\ UNCHANGED <<notes, trash, deletes>>
           ELSE \E actual \in {s.safeGroupParts} :
                  LET originalFilePath == Append(actual, noteFileName(s.safeTitle))
                  IN  IF originalFilePath \notin DOMAIN notes.files
                      THEN /\ last' = [call EXCEPT !.error = deleteNoteCatch(fsError("ENOENT"))]
                           /\ UNCHANGED <<notes, trash, deletes>>
                      ELSE /\ trash' = writeFile(mkdir(trash, actual), originalFilePath,
                                                 notes.files[originalFilePath])
                           /\ notes' = unlink(notes, originalFilePath)
                           /\ deletes' = deletes + 1
                           /\ last' = call
    /\ UNCHANGED <<now, mixed, tasks>>

\* deleteNote(title, group)
\* deleteNote(title, group) from its first line to its return
deleteNoteCall(title, group) ==
    /\ calls' = calls + 1
    /\ LET s == sanitizeInput(title, group)
           call == [NoCall EXCEPT !.op = "deleteNote", !.title = title, !.group = group]
       IN  IF s.safeTitle = <<>>
           THEN /\ last' = [call EXCEPT !.error = "Invalid title provided for deletion"]
                /\ UNCHANGED <<notes, trash, deletes>>
           ELSE \E actual \in determineTargetPath(notes, s.safeGroupParts) :
                  LET originalFilePath == Append(actual, noteFileName(s.safeTitle))
                  IN  IF originalFilePath \notin DOMAIN notes.files
                      THEN /\ last' = [call EXCEPT !.error = deleteNoteCatch(fsError("ENOENT"))]
                           /\ UNCHANGED <<notes, trash, deletes>>
                      ELSE /\ trash' = writeFile(mkdir(trash, actual), originalFilePath,
                                                 notes.files[originalFilePath])
                           /\ notes' = unlink(notes, originalFilePath)
                           /\ deletes' = deletes + 1
                           /\ last' = call
    /\ UNCHANGED <<now, mixed, tasks>>

DeleteNote(title, group) == CanCall /\ deleteNoteCall(title, group)

\* mutant of EmptyTrash: the trash directory is made again after the removal
EmptyTrashRecreatesRoot ==
    /\ CanCall
    /\ calls' = calls + 1
    /\ IF <<>> \notin trash.dirs
       THEN /\ last' = [NoCall EXCEPT !.op = "emptyTrash", !.deletedCount = 0]
            /\ UNCHANGED <<trash, deletes, mixed>>
       ELSE /\ last' = [NoCall EXCEPT !.op = "emptyTrash",
                                      !.deletedCount = countJsonFilesRecursive(trash, <<>>)]
            /\ trash' = ExistingRoot
            /\ deletes' = 0
            /\ mixed' = FALSE
    /\ UNCHANGED <<notes, now, tasks>>

EmptyTrash ==
    /\ CanCall
    /\ calls' = calls + 1
    /\ IF <<>> \notin trash.dirs
       THEN /\ last' = [NoCall EXCEPT !.op = "emptyTrash", !.deletedCount = 0]
            /\ UNCHANGED <<trash, deletes, mixed>>
       ELSE /\ last' = [NoCall EXCEPT !.op = "emptyTrash",
                                      !.deletedCount = countJsonFilesRecursive(trash, <<>>)]
            /\ trash' = AbsentTree
            /\ deletes' = 0
            /\ mixed' = FALSE
    /\ UNCHANGED <<notes, now, tasks>>

\* mutant of deleteEmptyGroupCatch: no error is told apart
deleteEmptyGroupCatchAll(error) == "Failed to delete group"

\* the catch block of deleteEmptyGroup, which also catches the error thrown in its
\* own try block: the message of the error it throws
deleteEmptyGroupCatch(error) ==
    IF error.code = "ENOENT" THEN "Group not found" ELSE "Failed to delete group"

\* mutant of DeleteEmptyGroup: the group is resolved in the casing of the tree
DeleteEmptyGroupCaseReuse(group) ==
    /\ CanCall
    /\ calls' = calls + 1
    /\ LET s == sanitizeInput(<<>>, group)
           groupPath == CHOOSE d \in determineTargetPath(notes, s.safeGroupParts) : TRUE
           call == [NoCall EXCEPT !.op = "deleteEmptyGroup", !.group = group]
       IN  IF groupPath = <<>>
           THEN /\ last' = [call EXCEPT !.error = "Invalid group provided for deletion"]
                /\ UNCHANGED notes
           ELSE IF readdir(notes, groupPath).code = "ENOENT"
           THEN /\ last' = [call EXCEPT !.error = deleteEmptyGroupCatch(fsError("ENOENT"))]
                /\ UNCHANGED notes
           ELSE IF readdir(notes, groupPath).entries # {}
           THEN /\ last' = [call EXCEPT !.error = deleteEmptyGroupCatch(newError("Group is not empty"))]
                /\ UNCHANGED notes
           ELSE /\ notes' = rmdir(notes, groupPath)
                /\ last' = call
    /\ UNCHANGED <<trash, now, deletes, mixed, tasks>>

\* deleteEmptyGroup(group) on the live tree given: the message of the error
\* thrown, '' when none is, and the tree it leaves
deleteEmptyGroup(tree, group) ==
    LET s == sanitizeInput(<<>>, group)
        groupPath == s.safeGroupParts
    IN  IF groupPath = <<>>
        THEN [error |-> "Invalid group provided for deletion", tree |-> tree]
        ELSE IF readdir(tree, groupPath).code # "OK"
        THEN [error |-> deleteEmptyGroupCatch(fsError(readdir(tree, groupPath).code)),
              tree |-> tree]
        ELSE IF readdir(tree, groupPath).entries # {}
        THEN [error |-> deleteEmptyGroupCatch(newError("Group is not empty")), tree |-> tree]
        ELSE [error |-> "", tree |-> rmdir(tree, groupPath)]

DeleteEmptyGroup(group) ==
    /\ CanCall
    /\ calls' = calls + 1
    /\ LET o == deleteEmptyGroup(notes, group)
       IN  /\ last' = [NoCall EXCEPT !.op = "deleteEmptyGroup", !.group = group,
                                     !.error = o.error]
           /\ notes' = o.tree
    /\ UNCHANGED <<trash, now, deletes, mixed, tasks>>

\* app.delete('/notes'): the status sent for the outcome of deleteNote or
\* deleteEmptyGroup; error.message.includes(...) by the messages that hold the words
deleteStatus(error) ==
    IF error = "" THEN 200
    ELSE IF error \in {"Note not found", "Group not found"} THEN 404
    ELSE IF error \in {"Group is not empty"} THEN 400
    ELSE 500

Next ==
    \/ Tick
    \/ \E note \in NoteInputs : CreateNotes(note)
    \/ \E d \in DeleteInputs : DeleteNote(d.title, d.group)
    \/ \E group \in GroupInputs : DeleteEmptyGroup(group)
    \/ EmptyTrash

Spec == Init /\ [][Next]_vars

-----------------------------------------------------------------------------
(* createNotes with the items of its batch interleaved at their awaits *)

BatchNotes ==
    {[title |-> ValidTitle, group |-> <<"W">>, content |-> "x"],
     [title |-> ValidTitle, group |-> <<"w">>, content |-> Undefined]}

RECURSIVE SeqsUpTo(_, _)
SeqsUpTo(S, n) ==
    IF n = 0 THEN {<<>>}
    ELSE SeqsUpTo(S, n - 1)
         \cup {Append(q, x) : q \in {r \in SeqsUpTo(S, n - 1) : Len(r) = n - 1}, x \in S}

\* batches in which a note is refused: for its title, for its group
SkipBatches ==
    {<<[title |-> BlankTitle, group |-> <<"W">>, content |-> "x"],
       [title |-> ValidTitle, group |-> <<"w">>, content |-> "x"]>>,
     <<[title |-> ValidTitle, group |-> <<"W">>, content |-> "x"],
       [title |-> ValidTitle, group |-> TrashGroup, content |-> "x"]>>}

Batches == (SeqsUpTo(BatchNotes, MaxBatch) \ {<<>>}) \cup SkipBatches

\* mutant of pushEnded: a note that failed with an error is not reported
pushEndedUnlessError(call, task) ==
    IF task.pc = "skipped" /\ task.error # "" THEN call
    ELSE [call EXCEPT !.processed = @ \o createResult(<<task>>).processed,
                      !.skipped = @ \o createResult(<<task>>).skipped]

\* processedNotes.push / skippedNotes.push of the task that just ended
pushEnded(call, task) ==
    [call EXCEPT !.processed = @ \o createResult(<<task>>).processed,
                 !.skipped = @ \o createResult(<<task>>).skipped]

RECURSIVE pushAll(_, _)
pushAll(call, ended) ==
    IF ended = <<>> THEN call ELSE pushAll(pushEnded(call, Head(ended)), Tail(ended))

\* notes.map(async note => ...): every callback runs to its first await
StartBatch(batch) ==
    /\ Idle
    /\ calls < MaxBatches
    /\ calls' = calls + 1
    /\ tasks' = [i \in 1..Len(batch) |-> taskStart(batch[i])]
    /\ last' = pushAll([NoCall EXCEPT !.op = "createNotes"],
                       SelectSeq([i \in 1..Len(batch) |-> taskStart(batch[i])], taskEnded))
    /\ UNCHANGED <<notes, trash, now, deletes, mixed>>

\* the filesystem call one item awaits completes and the item runs to its next await
Step(i) ==
    /\ ~taskEnded(tasks[i])
    /\ \E o \in taskSteps(tasks[i], notes, now) :
          /\ tasks' = [tasks EXCEPT ![i] = o.task]
          /\ notes' = o.tree
          /\ last' = IF taskEnded(o.task) THEN pushEnded(last, o.task) ELSE last
    /\ UNCHANGED <<trash, now, deletes, mixed, calls>>

\* mutant of Join: the call returns when one of its items has ended
JoinAny ==
    /\ tasks # <<>>
    /\ \E i \in 1..Len(tasks) : taskEnded(tasks[i])
    /\ tasks' = <<>>
    /\ UNCHANGED <<notes, trash, now, last, deletes, mixed, calls>>

\* await Promise.all(creationPromises); return
Join ==
    /\ tasks # <<>>
    /\ \A i \in 1..Len(tasks) : taskEnded(tasks[i])
    /\ tasks' = <<>>
    /\ UNCHANGED <<notes, trash, now, last, deletes, mixed, calls>>

NextConc ==
    \/ \E batch \in Batches : StartBatch(batch)
    \/ \E i \in 1..Len(tasks) : Step(i)
    \/ Join

SpecConc == Init /\ [][NextConc]_vars

-----------------------------------------------------------------------------
(* createNotes on a tree that holds what a note cannot be written over *)

FaultTitle == sanitizeInput(ValidTitle, <<>>).safeTitle
FaultFile == <<<<"W">>, noteFileName(FaultTitle)>>
FaultDoc ==
    [title |-> FaultTitle, group |-> <<"W">>, relativePath |-> join(FaultFile, pathSep),
     createdDate |-> 1, versions |-> <<[content |-> "y", createdDate |-> 1]>>]

\* a tree with the group W and, at the path of the note of W: a document, a
\* read-only document, a file that cannot be read, a text that is no JSON, the
\* JSON null, a directory, nothing; and a tree with a file W where the group is
\* to be
FaultTrees ==
    {[dirs |-> {<<>>, <<<<"W">>>>}, files |-> [f \in {FaultFile} |-> text]] :
        text \in {JSONstringify(FaultDoc),
                  JSONstringify(FaultDoc) @@ [readonly |-> TRUE],
                  [kind |-> "unreadable"], [kind |-> "text"], [kind |-> "null"]}}
    \cup {[dirs |-> {<<>>, <<<<"W">>>>, FaultFile}, files |-> EmptyFiles],
          [dirs |-> {<<>>, <<<<"W">>>>}, files |-> EmptyFiles],
          [dirs |-> {<<>>}, files |-> [f \in {<<<<"W">>>>} |-> [kind |-> "text"]]]}

FaultNotes ==
    [W |-> [title |-> ValidTitle, group |-> <<"W">>, content |-> "x"],
     w |-> [title |-> ValidTitle, group |-> <<"w">>, content |-> Undefined],
     root |-> [title |-> ValidTitle, group |-> <<>>, content |-> "x"]]

FaultBatches ==
    {<<FaultNotes.W, FaultNotes.root>>, <<FaultNotes.root, FaultNotes.w>>,
     <<FaultNotes.w, FaultNotes.W>>, <<FaultNotes.W>>}

InitFaults ==
    /\ notes \in FaultTrees
    /\ trash = AbsentTree
    /\ now = 2
    /\ last = NoCall
    /\ deletes = 0
    /\ mixed = FALSE
    /\ tasks = <<>>
    /\ calls = 0

NextFaults ==
    \/ \E batch \in FaultBatches : StartBatch(batch)
    \/ \E i \in 1..Len(tasks) : Step(i)
    \/ Join

SpecFaults == InitFaults /\ [][NextFaults]_vars

-----------------------------------------------------------------------------
(* getAllNotes on the trees another program may have left *)

\* one day after the epoch: 1970-01-02T00:00:00.000Z
Midnight == 24 * 60 * 60 * 1000

ListName(c, ext) == <<c>> \o ext

ListDoc(title, path, versions) ==
    [title |-> title, group |-> join(SubSeq(path, 1, Len(path) - 1), pathSep),
     relativePath |-> join(path, pathSep), versions |-> versions]

\* the files of the trees: documents with two versions, without the versions key,
\* with no version, without createdDate, with a createdDate that is no date; a file
\* that is not JSON, a file that cannot be read, a document that is no .json file
ListFiles ==
    LET a == <<ListName("a", jsonExt)>>
        b == <<<<"W">>, ListName("B", <<".", "J", "S", "O", "N">>)>>
        c == <<<<"W">>, trashName, ListName("c", jsonExt)>>
        d == <<trashName, ListName("d", jsonExt)>>
        e == <<ListName("e", jsonExt)>>
        f == <<<<"W">>, ListName("f", jsonExt)>>
        g == <<ListName("g", <<".", "t", "x", "t">>)>>
        h == <<ListName("h", jsonExt)>>
        i == <<ListName("i", jsonExt)>>
        j == <<ListName("j", jsonExt)>>
        text == [p \in {a, b, c, d, e, f, g, h, i, j} |->
            CASE p = a -> JSONstringify(
                    ListDoc(<<"a">>, a, <<[content |-> "y", createdDate |-> Midnight + 1],
                                          [content |-> "x", createdDate |-> Midnight]>>)
                        @@ [createdDate |-> Midnight])
              [] p = b -> JSONstringify(
                    [title |-> <<"A", "B">>, group |-> <<"W">>,
                     relativePath |-> join(b, pathSep), createdDate |-> Midnight + 1])
              [] p = c -> JSONstringify(
                    ListDoc(<<"c">>, c, <<>>) @@ [createdDate |-> Midnight - 1])
              [] p = d -> JSONstringify(
                    ListDoc(<<"d">>, d,
                            <<[content |-> "x", createdDate |-> Midnight]>>)
                        @@ [createdDate |-> Midnight])
              [] p = e -> [kind |-> "text"]
              [] p = f -> [kind |-> "unreadable"]
              [] p = g -> JSONstringify(
                    ListDoc(<<"g">>, g,
                            <<[content |-> "x", createdDate |-> Midnight]>>)
                        @@ [createdDate |-> Midnight])
              [] p = h -> JSONstringify(
                    ListDoc(<<"h">>, h,
                            <<[content |-> "", createdDate |-> Midnight + 1]>>)
                        @@ [createdDate |-> InvalidDateValue])
              [] p = i -> JSONstringify(
                    ListDoc(<<"i">>, i,
                            <<[content |-> "x", createdDate |-> Midnight + 1]>>))
              [] p = j -> JSONstringify(
                    [group |-> <<>>, relativePath |-> join(j, pathSep),
                     createdDate |-> Midnight + 1,
                     versions |-> <<[content |-> "x", createdDate |-> Midnight + 1]>>])]
    IN  text

\* the tree that holds the files of S and the directories they lie in
treeOf(S) ==
    [dirs |-> {<<>>} \cup UNION {Prefixes(SubSeq(f, 1, Len(f) - 1)) : f \in S},
     files |-> [f \in S |-> ListFiles[f]]]

ListTrees == {treeOf(S) : S \in SUBSET DOMAIN ListFiles}

DayString == <<"1", "9", "7", "0", "-", "0", "1", "-", "0", "2">>
IsoString == DayString \o StartOfDay
IsoStringLater ==
    DayString \o <<"T", "0", "0", ":", "0", "0", ":", "0", "0", ".", "0", "0", "1", "Z">>
UTCString ==
    <<"F", "r", "i", ",", " ", "0", "2", " ", "J", "a", "n", " ", "1", "9", "7", "0", " ">>
        \o <<"0", "0", ":", "0", "0", ":", "0", "0", " ", "G", "M", "T">>
NoDateString == <<"x">>

DateInputs == {<<>>, DayString, IsoString, IsoStringLater, UTCString, NoDateString}

\* the bodies of GET /notes
ListBodies ==
    {[deleted |-> v] : v \in BOOLEAN}
    \cup {[deleted |-> FALSE, createdAfter |-> x] : x \in DateInputs}
    \cup {[deleted |-> FALSE, createdBefore |-> x] : x \in DateInputs}
    \cup {[deleted |-> FALSE, createdAfter |-> DayString, createdBefore |-> IsoStringLater],
          [deleted |-> FALSE, createdAfter |-> NoDateString, createdBefore |-> DayString],
          [deleted |-> TRUE, createdBefore |-> NoDateString],
          [deleted |-> FALSE, groups |-> << <<"W", "\\", "t", "r", "a", "s", "h">> >>],
          [deleted |-> FALSE, titles |-> << <<"b">>, <<"C">> >>],
          [deleted |-> FALSE, groups |-> << <<"W">> >>, titles |-> << <<"a">> >>],
          [deleted |-> FALSE, groups |-> << <<"w">> >>],
          [deleted |-> FALSE, groups |-> <<>>, titles |-> <<>>],
          [deleted |-> FALSE, titles |-> << <<"a">> >>, createdAfter |-> DayString],
          [deleted |-> FALSE, groups |-> << <<>>, <<"W">> >>,
           createdBefore |-> IsoStringLater],
          [deleted |-> TRUE, titles |-> << <<"D">> >>],
          [deleted |-> FALSE, title |-> <<"b">>],
          [deleted |-> FALSE, content |-> "y"],
          [deleted |-> FALSE, modifiedBefore |-> DayString],
          [deleted |-> FALSE, modifiedAfter |-> DayString]}

InitList ==
    /\ notes \in ListTrees
    /\ trash \in {AbsentTree, treeOf({<<ListName("a", jsonExt)>>}),
                 treeOf({<<ListName("a", jsonExt)>>,
                         <<trashName, ListName("d", jsonExt)>>})}
    /\ now = 1
    /\ last = NoCall
    /\ deletes = 0
    /\ mixed = FALSE
    /\ tasks = <<>>
    /\ calls = 0

\* GET /notes with a body: { deleted: viewTrash, ...filters } = req.body; one
\* request in a behaviour, as a request changes no tree
GetNotes(body) ==
    /\ last.op = "none"
    /\ LET viewTrash == body.deleted = TRUE
           hasFilters == DOMAIN body # {"deleted"}
           r == getAllNotesFiltered(IF viewTrash THEN trash ELSE notes, body, hasFilters)
       IN  last' = [NoCall EXCEPT !.op = "getAllNotes",
                                  !.body = body,
                                  !.error = IF r.code = "OK" THEN "" ELSE r.code,
                                  !.status = listStatus(r.code),
                                  !.result = r.notes]
    /\ UNCHANGED <<notes, trash, now, deletes, mixed, tasks, calls>>

NextList == \E body \in ListBodies : GetNotes(body)

SpecList == InitList /\ [][NextList]_vars

-----------------------------------------------------------------------------
(* getStats and getAllNotes on roots that are missing or cannot be read *)

\* a root: missing; empty; with a note in the group W; with the empty group W;
\* with the group W that holds the empty group w; with a group W that cannot
\* be read; a root that cannot be read; with a note and a top-level directory
\* trash that cannot be read
StatsTrees ==
    {AbsentTree,
     ExistingRoot,
     [dirs |-> {<<>>, <<<<"W">>>>}, files |-> [f \in {FaultFile} |-> JSONstringify(FaultDoc)]],
     [dirs |-> {<<>>, <<<<"W">>>>}, files |-> EmptyFiles],
     [dirs |-> {<<>>, <<<<"W">>>>, <<<<"W">>, <<"w">>>>}, files |-> EmptyFiles],
     [dirs |-> {<<>>, <<<<"W">>>>}, files |-> EmptyFiles, locked |-> {<<<<"W">>>>}],
     [dirs |-> {<<>>}, files |-> EmptyFiles, locked |-> {<<>>}],
     [dirs |-> {<<>>, <<<<"W">>>>, <<trashName>>},
      files |-> [f \in {FaultFile} |-> JSONstringify(FaultDoc)],
      locked |-> {<<trashName>>}]}

InitStats ==
    /\ notes \in StatsTrees
    /\ trash \in StatsTrees
    /\ now = 2
    /\ last = NoCall
    /\ deletes = 0
    /\ mixed = FALSE
    /\ tasks = <<>>
    /\ calls = 0

\* app.get('/stats'): one request in a behaviour, as a request changes no tree
GetStats ==
    /\ last.op = "none"
    /\ LET o == getStats(notes, trash)
       IN  last' = [stats |-> o.stats] @@
                   [NoCall EXCEPT !.op = "getStats",
                                  !.error = o.error,
                                  !.status = IF o.error = "" THEN 200 ELSE 500]
    /\ UNCHANGED <<notes, trash, now, deletes, mixed, tasks, calls>>

NextStats ==
    \/ GetStats
    \/ \E viewTrash \in BOOLEAN : GetNotes([deleted |-> viewTrash])

SpecStats == InitStats /\ [][NextStats]_vars

-----------------------------------------------------------------------------
(* The API on a store that holds live notes and a trashed note *)

RootFile == <<noteFileName(FaultTitle)>>

\* the document createNotes writes for the title without a group
RootDoc(content) ==
    [title |-> FaultTitle, group |-> <<>>, relativePath |-> join(RootFile, pathSep),
     createdDate |-> 1, versions |-> <<[content |-> content, createdDate |-> 1]>>]

\* the state after createNotes of the title, deleteNote of it, createNotes of it
\* again and createNotes of it in the group W
InitTrash ==
    /\ notes = [dirs |-> {<<>>, <<<<"W">>>>},
                files |-> [f \in {RootFile, FaultFile} |->
                              IF f = RootFile THEN JSONstringify(RootDoc("x"))
                              ELSE JSONstringify(FaultDoc)]]
    /\ trash = [dirs |-> {<<>>}, files |-> [f \in {RootFile} |-> JSONstringify(RootDoc("z"))]]
    /\ now = 1
    /\ last = NoCall
    /\ deletes = 1
    /\ mixed = TRUE
    /\ tasks = <<>>
    /\ calls = 0

SpecTrash == InitTrash /\ [][Next]_vars

-----------------------------------------------------------------------------
(* emptyTrash in its steps, with deleteNote calls between them *)

\* emptyTrash up to fs.access(trashDir): a trash directory that does not exist
\* ends the call; tasks holds the call that goes on
EmptyTrashAccess ==
    /\ Idle
    /\ calls < MaxCalls
    /\ calls' = calls + 1
    /\ IF <<>> \notin trash.dirs
       THEN /\ last' = [NoCall EXCEPT !.op = "emptyTrash", !.deletedCount = 0]
            /\ tasks' = tasks
       ELSE /\ tasks' = <<[pc |-> "count", deletedCount |-> 0]>>
            /\ last' = last
    /\ UNCHANGED <<notes, trash, now, deletes, mixed>>

\* deletedCount = await countJsonFilesRecursive(trashDir)
EmptyTrashCount ==
    /\ tasks # <<>>
    /\ tasks[1].pc = "count"
    /\ tasks' = <<[pc |-> "rm", deletedCount |-> countJsonFilesRecursive(trash, <<>>)]>>
    /\ UNCHANGED <<notes, trash, now, last, deletes, mixed, calls>>

\* mutant of EmptyTrashRemove: the files are counted as they are removed
EmptyTrashRemoveRecount ==
    /\ tasks # <<>>
    /\ tasks[1].pc = "rm"
    /\ trash' = AbsentTree
    /\ last' = [destroyed |-> countJsonFilesRecursive(trash, <<>>)] @@
                [NoCall EXCEPT !.op = "emptyTrash",
                               !.deletedCount = countJsonFilesRecursive(trash, <<>>)]
    /\ deletes' = 0
    /\ mixed' = FALSE
    /\ tasks' = <<>>
    /\ UNCHANGED <<notes, now, calls>>

\* fs.rm(trashDir, {recursive: true, force: true}) and the return; destroyed
\* records how many .json files the removal took away
EmptyTrashRemove ==
    /\ tasks # <<>>
    /\ tasks[1].pc = "rm"
    /\ trash' = AbsentTree
    /\ last' = [destroyed |-> countJsonFilesRecursive(trash, <<>>)] @@
                [NoCall EXCEPT !.op = "emptyTrash", !.deletedCount = tasks[1].deletedCount]
    /\ deletes' = 0
    /\ mixed' = FALSE
    /\ tasks' = <<>>
    /\ UNCHANGED <<notes, now, calls>>

\* a deleteNote call, before, after or between the steps of emptyTrash
DeleteNoteAnyTime(title, group) == calls < MaxCalls /\ deleteNoteCall(title, group)

NextPurge ==
    \/ EmptyTrashAccess
    \/ EmptyTrashCount
    \/ EmptyTrashRemove
    \/ \E d \in DeleteInputs : DeleteNoteAnyTime(d.title, d.group)

SpecPurge == InitTrash /\ [][NextPurge]_vars

-----------------------------------------------------------------------------
(* sanitizeInput on the strings of a small alphabet *)

MaxLen == 3

SanitizeChars == {" ", "a", ".", "/", "\\", "?", "%", "*", ":", "|", "\"", "<", ">"}
SanitizeStrings == SeqsUpTo(SanitizeChars, MaxLen)

InitSanitize ==
    /\ notes = AbsentTree
    /\ trash = AbsentTree
    /\ now = 1
    /\ \E x \in SanitizeStrings : last = [NoCall EXCEPT !.title = x, !.group = x]
    /\ deletes = 0
    /\ mixed = FALSE
    /\ tasks = <<>>
    /\ calls = 0

SanitizeInput ==
    /\ last.op = "none"
    /\ last' = [last EXCEPT !.op = "sanitizeInput",
                            !.safeTitle = sanitizeInput(last.title, last.group).safeTitle,
                            !.safeGroupParts =
                                sanitizeInput(last.title, last.group).safeGroupParts]
    /\ UNCHANGED <<notes, trash, now, deletes, mixed, tasks, calls>>

NextSanitize == SanitizeInput

SpecSanitize == InitSanitize /\ [][NextSanitize]_vars

-----------------------------------------------------------------------------
(* Properties *)

\* the step is an API call
IsCall == calls' = calls + 1

\* the notes a listing shows under a title and a group
ListedAs(listing, title, group) ==
    {n \in listing.notes : n.title = title /\ n.group = group}

\* the note a listing shows for a file, if any
ListedAt(listing, f) == {n \in listing.notes : n.filePath = f}

DirOf(f) == SubSeq(f, 1, Len(f) - 1)
LowerPath(d) == [i \in 1..Len(d) |-> toLowerCase(d[i])]

\* the live files a title and a group name, casing of the group apart
LiveMatches(title, group) ==
    LET s == sanitizeInput(title, group)
    IN  {f \in DOMAIN notes.files :
            /\ f[Len(f)] = noteFileName(s.safeTitle)
            /\ LowerPath(DirOf(f)) = LowerPath(s.safeGroupParts)}

GivenContent(c) == IF c = Undefined THEN "" ELSE c

\* C1: after createNotes has processed its one note (title T, group G, content C),
\* the live listing holds exactly one note under the title and group the call
\* reports, the title being sanitized T, the group being sanitized G in the casing
\* of the tree, the content being C and createdDate not later than the clock.
RoundTrip ==
    (last.op = "createNotes" /\ last.processed # <<>>) =>
        LET p == last.processed[1]
            s == sanitizeInput(last.title, last.group)
            listing == getAllNotes(FALSE)
            hits == ListedAs(listing, p.title, p.group)
        IN  /\ listing.code = "OK"
            /\ Cardinality(hits) = 1
            /\ p.title = s.safeTitle
            /\ toLowerCase(p.group) = toLowerCase(join(s.safeGroupParts, pathSep))
            /\ \A n \in hits :
                  /\ n.filePath[Len(n.filePath)] = noteFileName(s.safeTitle)
                  /\ LowerPath(DirOf(n.filePath)) = LowerPath(s.safeGroupParts)
                  /\ n.content = GivenContent(last.content)
                  /\ n.createdDate <= now

\* a note was created where none was: a first version, in a nested group
RoundTripWitness ==
    /\ last.op = "createNotes"
    /\ Len(last.processed) = 1
    /\ last.t2 # 0
    /\ last.content = "x"
    /\ \E n \in getAllNotes(FALSE).notes :
          /\ Len(n.filePath) = 3
          /\ n.group = last.processed[1].group
          /\ n.content = "x"
          /\ Len(notes.files[n.filePath].value.versions) = 1

\* C2: a createNotes call that finds the document lists its own content and its
\* own timestamp as modifiedDate and leaves the listed createdDate as it was; the
\* call that creates the document lists the createdDate it read from the clock.
Versioning ==
    [][(IsCall /\ last'.op = "createNotes" /\ last'.processed # <<>>) =>
        LET before == getAllNotes(FALSE)
            after == getAllNotes(FALSE)'
            hits == ListedAs(after, last'.processed[1].title, last'.processed[1].group)
        IN  /\ hits # {}
            /\ \A n \in hits :
                  /\ n.content = GivenContent(last'.content)
                  /\ n.modifiedDate = last'.t1
                  /\ IF ListedAt(before, n.filePath) # {}
                     THEN /\ \A m \in ListedAt(before, n.filePath) :
                                n.createdDate = m.createdDate
                          /\ last'.t2 = 0
                     ELSE n.createdDate = last'.t2]_vars

\* a second call changed the content of a note created earlier
VersioningWitness ==
    /\ last.op = "createNotes"
    /\ last.processed # <<>>
    /\ last.t2 = 0
    /\ \E n \in getAllNotes(FALSE).notes :
          /\ n.createdDate < n.modifiedDate
          /\ n.modifiedDate = last.t1
          /\ n.content = GivenContent(last.content)
          /\ Len(notes.files[n.filePath].value.versions) >= 2
          /\ notes.files[n.filePath].value.versions[1].content
                # notes.files[n.filePath].value.versions[2].content

\* C3: a deleteNote that succeeds takes the one live file its title and group name
\* out of the live listing and into the trash listing, same path, same listed
\* note, same document; a deleteNote whose title and group name no live file
\* fails with the not-found error (404) and one that names a file succeeds.
SoftDelete ==
    [][(IsCall /\ last'.op = "deleteNote"
            /\ sanitizeInput(last'.title, last'.group).safeTitle # <<>>) =>
        LET named == LiveMatches(last'.title, last'.group)
        IN  IF named = {}
            THEN /\ last'.error = "Note not found"
                 /\ deleteStatus(last'.error) = 404
                 /\ notes' = notes /\ trash' = trash
            ELSE /\ last'.error = ""
                 /\ Cardinality(named) = 1
                 /\ \A f \in named :
                       /\ Cardinality(ListedAt(getAllNotes(FALSE), f)) = 1
                       /\ ListedAt(getAllNotes(FALSE)', f) = {}
                       /\ getAllNotes(TRUE)'.code = "OK"
                       /\ ListedAt(getAllNotes(TRUE)', f) = ListedAt(getAllNotes(FALSE), f)
                       /\ trash'.files[f] = notes.files[f]
                       /\ getAllNotes(FALSE)'.notes
                             = getAllNotes(FALSE).notes \ ListedAt(getAllNotes(FALSE), f)]_vars

\* a note with two versions, in a group, was moved to the trash
SoftDeleteWitness ==
    /\ last.op = "deleteNote"
    /\ last.error = ""
    /\ LiveMatches(last.title, last.group) = {}
    /\ \E n \in getAllNotes(TRUE).notes :
          /\ n.title = sanitizeInput(last.title, last.group).safeTitle
          /\ n.group # <<>>
          /\ toLowerCase(n.group)
                = toLowerCase(join(sanitizeInput(last.title, last.group).safeGroupParts, pathSep))
          /\ Len(trash.files[n.filePath].value.versions) = 2

\* C4: no call but emptyTrash destroys or changes a document of the trash tree.
OnlyPurgeDestroys ==
    [][(IsCall /\ last'.op \in {"createNotes", "deleteNote", "deleteEmptyGroup"}) =>
        \A f \in DOMAIN trash.files :
            f \in DOMAIN trash'.files /\ trash'.files[f] = trash.files[f]]_vars

\* C5: emptyTrash on an existing trash tree removes the tree and, when the notes
\* were created before the deleteNote calls began, returns the number of deleteNote
\* calls that succeeded since the trash was last empty; on an absent trash tree it
\* returns 0 without error and changes nothing.
TrashPurge ==
    [][(IsCall /\ last'.op = "emptyTrash") =>
        /\ last'.error = ""
        /\ IF <<>> \in trash.dirs
           THEN /\ ~mixed => last'.deletedCount = deletes
                /\ trash' = AbsentTree
                /\ getAllNotes(TRUE)'.notes = {}
                /\ notes' = notes
           ELSE /\ last'.deletedCount = 0
                /\ deletes = 0
                /\ notes' = notes /\ trash' = trash]_vars

\* every note that was created and deleted was counted by the purge
TrashPurgeWitness ==
    /\ last.op = "emptyTrash"
    /\ last.deletedCount >= 1
    /\ trash = AbsentTree
    /\ DOMAIN notes.files = {}

\* C6: when the items of a batch have ended and two processed items of one file
\* read the same prior document, the file holds the document one item prepared and
\* at least one new version is lost: its version list is shorter than the prior
\* list plus the processed items of that file.
LostUpdate ==
    (tasks # <<>> /\ \A i \in 1..Len(tasks) : taskEnded(tasks[i])) =>
        \A i, j \in 1..Len(tasks) :
            (/\ i # j
             /\ tasks[i].pc = "processed" /\ tasks[j].pc = "processed"
             /\ taskFilePath(tasks[i]) = taskFilePath(tasks[j])
             /\ tasks[i].read = tasks[j].read) =>
                LET f == taskFilePath(tasks[i])
                    same == {k \in 1..Len(tasks) :
                                tasks[k].pc = "processed" /\ taskFilePath(tasks[k]) = f}
                IN  /\ f \in DOMAIN notes.files
                    /\ \E k \in same : notes.files[f] = JSONstringify(tasks[k].data)
                    /\ Len(notes.files[f].value.versions)
                          < Len(tasks[i].read.versions) + Cardinality(same)
                    /\ Len(last.processed) >= Cardinality(same)

\* two items read the same existing document, both are reported processed and the
\* file has one version more than the document they read
LostUpdateWitness ==
    /\ Len(tasks) = 2
    /\ tasks[1].pc = "processed" /\ tasks[2].pc = "processed"
    /\ taskFilePath(tasks[1]) = taskFilePath(tasks[2])
    /\ tasks[1].read = tasks[2].read
    /\ tasks[1].read # NoDoc
    /\ tasks[1].newVersion # tasks[2].newVersion
    /\ Len(last.processed) = 2
    /\ Len(notes.files[taskFilePath(tasks[1])].value.versions)
          = Len(tasks[1].read.versions) + 1

\* no directory of the tree has two subdirectories whose names are equal ignoring case
NoCaseDuplicates(tree) ==
    \A d, e \in tree.dirs :
        (Len(d) = Len(e) /\ Len(d) > 0 /\ DirOf(d) = DirOf(e)
            /\ toLowerCase(d[Len(d)]) = toLowerCase(e[Len(e)])) => d = e

\* C7: a createNotes call whose group matches directories of the tree ignoring
\* case writes under those directories, creates no directory that differs from a
\* sibling only in case, and stores and lists the group in the tree's casing.
CaseReuse ==
    [][(IsCall /\ last'.op = "createNotes" /\ last'.processed # <<>>) =>
        LET p == last'.processed[1]
            parts == sanitizeInput(last'.title, last'.group).safeGroupParts
            hits == ListedAs(getAllNotes(FALSE)', p.title, p.group)
        IN  /\ NoCaseDuplicates(notes')
            /\ hits # {}
            /\ \A n \in hits :
                  LET dir == DirOf(n.filePath)
                  IN  /\ LowerPath(dir) = LowerPath(parts)
                      /\ \A d \in notes.dirs :
                            IsPrefix(LowerPath(d), LowerPath(parts)) => IsPrefix(d, dir)
                      /\ notes'.dirs = notes.dirs \cup Prefixes(dir)
                      /\ p.group = join(dir, pathSep)
                      /\ n.group = join(dir, pathSep)
                      /\ notes'.files[n.filePath].value.group = join(dir, pathSep)]_vars

\* a note given group "w/W" was written into the existing directories W/w
CaseReuseWitness ==
    /\ last.op = "createNotes"
    /\ last.group = <<"w", "/", "W">>
    /\ last.processed # <<>>
    /\ last.processed[1].group = <<"W", "/", "w">>
    /\ notes.dirs = {<<>>, << <<"W">> >>, << <<"W">>, <<"w">> >>}

\* C8: no directory of the live tree has two subdirectories whose names are equal
\* ignoring case.
CaseInsensitiveUnique == NoCaseDuplicates(notes)

\* C9: deleteEmptyGroup on an existing directory without entries succeeds and
\* removes that directory and nothing else; on a path that is no directory it
\* fails with the not-found error (404) and changes nothing.
EmptyGroupDeletion ==
    [][(IsCall /\ last'.op = "deleteEmptyGroup"
            /\ sanitizeInput(<<>>, last'.group).safeGroupParts # <<>>) =>
        LET groupPath == sanitizeInput(<<>>, last'.group).safeGroupParts
        IN  /\ groupPath \notin notes.dirs =>
                  /\ last'.error = "Group not found"
                  /\ deleteStatus(last'.error) = 404
                  /\ notes' = notes /\ trash' = trash
            /\ (groupPath \in notes.dirs /\ readdir(notes, groupPath).entries = {}) =>
                  /\ last'.error = ""
                  /\ notes'.dirs = notes.dirs \ {groupPath}
                  /\ notes'.files = notes.files
                  /\ trash' = trash]_vars

\* a group left empty by deleteNote was deleted
EmptyGroupDeletionWitness ==
    /\ last.op = "deleteEmptyGroup"
    /\ last.error = ""
    /\ sanitizeInput(<<>>, last.group).safeGroupParts \notin notes.dirs
    /\ <<>> \in notes.dirs
    /\ DOMAIN trash.files # {}

\* C10: deleteEmptyGroup on a directory with entries fails with the error that
\* says the group is not empty, which the route answers with 400, and leaves the
\* directory as it is.
NotEmptyIsTyped ==
    (/\ last.op = "deleteEmptyGroup"
     /\ sanitizeInput(<<>>, last.group).safeGroupParts \in notes.dirs
     /\ readdir(notes, sanitizeInput(<<>>, last.group).safeGroupParts).entries # {}) =>
        /\ last.error = "Group is not empty"
        /\ deleteStatus(last.error) = 400

\* the files a listing of the tree is to show: the .json files, extension in any
\* case, that do not lie under the directory trash of the root
ListedDomain(tree) ==
    {f \in DOMAIN tree.files :
        /\ toLowerCase(extname(f[Len(f)])) = jsonExt
        /\ ~(Len(f) >= 2 /\ f[1] = trashName)}

\* the documents among them: the files that can be read and hold JSON
ValidDocuments(tree) == {f \in ListedDomain(tree) : tree.files[f].kind = "json"}

\* the last call listed the live tree without filters
ListedLive == last.op = "getAllNotes" /\ last.body = [deleted |-> FALSE]

\* C11: getAllNotes on a tree that holds valid documents next to files that are
\* not JSON or cannot be read raises no error and returns exactly one note for
\* every valid document.
CorruptFileIsolation ==
    ListedLive =>
        /\ last.error = ""
        /\ last.status = 200
        /\ {n.filePath : n \in last.result} = ValidDocuments(notes)
        /\ Cardinality(last.result) = Cardinality(ValidDocuments(notes))

\* two valid documents were listed from a tree that also holds a file that is not
\* JSON and a file that cannot be read
CorruptFileIsolationWitness ==
    /\ ListedLive
    /\ Cardinality(last.result) = 2
    /\ \E f \in ListedDomain(notes) : notes.files[f].kind = "text"
    /\ \E f \in ListedDomain(notes) : notes.files[f].kind = "unreadable"

\* C12: every note listed has the content and the createdDate of versions[0] of
\* its document as content and modifiedDate; a document whose versions are absent
\* or empty is listed with content '' and without modifiedDate.
LatestVersionProjection ==
    ListedLive =>
        /\ \A n \in last.result :
              LET doc == notes.files[n.filePath].value
              IN  IF "versions" \in DOMAIN doc /\ doc.versions # <<>>
                  THEN /\ n.content = doc.versions[1].content
                       /\ n.modifiedDate = doc.versions[1].createdDate
                  ELSE /\ n.content = ""
                       /\ n.modifiedDate = 0
        /\ \A f \in ValidDocuments(notes) : \E n \in last.result : n.filePath = f

\* a document with two versions, one without the versions key and one with an
\* empty versions list were listed
LatestVersionProjectionWitness ==
    /\ ListedLive
    /\ \E n \in last.result :
          /\ "versions" \in DOMAIN notes.files[n.filePath].value
          /\ Len(notes.files[n.filePath].value.versions) = 2
          /\ n.content = "y"
          /\ n.modifiedDate = Midnight + 1
    /\ \E n \in last.result : "versions" \notin DOMAIN notes.files[n.filePath].value
    /\ \E n \in last.result :
          /\ "versions" \in DOMAIN notes.files[n.filePath].value
          /\ notes.files[n.filePath].value.versions = <<>>

\* C13: findJsonFiles(baseDir, baseDir) returns the .json files under baseDir,
\* extension in any case, but for those under the directory trash of baseDir
\* itself; a file under a directory trash further down is returned, its group being
\* the path of its directory from baseDir.
RootRelativeExclusion ==
    findJsonFiles(notes, <<>>) =
        {[filePath |-> f,
          group |-> IF Len(f) = 1 THEN <<".">> ELSE join(DirOf(f), pathSep),
          relativePath |-> join(f, pathSep)] : f \in ListedDomain(notes)}

\* a tree with a file under trash, a file under W/trash, a file B.JSON and a file
\* g.txt was listed; the file under W/trash is among the notes
RootRelativeExclusionWitness ==
    /\ ListedLive
    /\ \E f \in DOMAIN notes.files : f[1] = trashName
    /\ \E f \in DOMAIN notes.files : extname(f[Len(f)]) = <<".", "t", "x", "t">>
    /\ \E n \in last.result : extname(n.filePath[Len(n.filePath)]) = <<".", "J", "S", "O", "N">>
    /\ \E n \in last.result :
          /\ Len(n.filePath) = 3
          /\ n.filePath[2] = trashName
          /\ n.group = <<"W", "/", "t", "r", "a", "s", "h">>

\* the time a bound of the date filters names: the day at its midnight in UTC
BoundTime(x) ==
    CASE x = DayString -> Midnight
      [] x = IsoString -> Midnight
      [] x = IsoStringLater -> Midnight + 1

HasBound(body, key) == key \in DOMAIN body /\ body[key] # <<>>

\* the last call listed the live tree with nothing but date bounds of the formats
\* YYYY-MM-DD and ISO 8601
ListedByDate ==
    /\ last.op = "getAllNotes"
    /\ DOMAIN last.body \subseteq {"deleted", "createdAfter", "createdBefore"}
    /\ ~last.body.deleted
    /\ \A key \in {"createdAfter", "createdBefore"} :
          HasBound(last.body, key) => last.body[key] \in {DayString, IsoString, IsoStringLater}

\* C14: under a createdAfter bound a and a createdBefore bound b, a document with
\* a valid createdDate d is listed exactly if d > a and d < b, a bound YYYY-MM-DD
\* being the midnight of that day in UTC.
DateBoundsExclusive ==
    ListedByDate =>
        /\ last.error = ""
        /\ \A f \in ValidDocuments(notes) :
              LET doc == notes.files[f].value
              IN  ("createdDate" \in DOMAIN doc /\ doc.createdDate > 0) =>
                    ((\E n \in last.result : n.filePath = f)
                        <=> /\ HasBound(last.body, "createdAfter")
                                => doc.createdDate > BoundTime(last.body.createdAfter)
                            /\ HasBound(last.body, "createdBefore")
                                => doc.createdDate < BoundTime(last.body.createdBefore))

\* createdAfter 1970-01-02 left out the document created at that midnight and
\* kept the one created a millisecond later
DateBoundsExclusiveWitness ==
    /\ ListedByDate
    /\ last.body = [deleted |-> FALSE, createdAfter |-> DayString]
    /\ \E f \in ValidDocuments(notes) :
          /\ "createdDate" \in DOMAIN notes.files[f].value
          /\ notes.files[f].value.createdDate = Midnight
          /\ \A n \in last.result : n.filePath # f
    /\ \E n \in last.result : n.createdDate = Midnight + 1

\* C15: a createdBefore or createdAfter that is a non-empty string of neither the
\* format YYYY-MM-DD nor ISO 8601 makes getAllNotes on an existing tree fail with
\* the invalid-date error (400) and return no note.
InvalidDateAborts ==
    (/\ last.op = "getAllNotes"
     /\ <<>> \in (IF last.body.deleted THEN trash ELSE notes).dirs
     /\ \E key \in {"createdAfter", "createdBefore"} :
           /\ HasBound(last.body, key)
           /\ last.body[key] \notin {DayString, IsoString, IsoStringLater}) =>
        /\ last.error = "Invalid date"
        /\ last.status = 400
        /\ last.result = {}

\* C19: a list request with one of the filters the README documents returns only
\* notes that match it: title and content contain the string given (the contents
\* of the model being single characters, the content is the string given),
\* modifiedDate lies before modifiedBefore and after modifiedAfter.
DocumentedFiltersEffective ==
    (last.op = "getAllNotes" /\ last.error = "") =>
        \A n \in last.result :
            /\ "title" \in DOMAIN last.body
                  => includes(toLowerCase(n.title), toLowerCase(last.body.title))
            /\ "content" \in DOMAIN last.body => n.content = last.body.content
            /\ "modifiedBefore" \in DOMAIN last.body
                  => n.modifiedDate # 0 /\ n.modifiedDate < BoundTime(last.body.modifiedBefore)
            /\ "modifiedAfter" \in DOMAIN last.body
                  => n.modifiedDate > BoundTime(last.body.modifiedAfter)

\* the characters sanitizeInput is to take out of a title
Forbidden == {"/", "\\", "?", "%", "*", ":", "|", "\"", "<", ">"}

IsSeparator(c) == c \in {"/", "\\"}

RECURSIVE flatten(_)
flatten(parts) == IF parts = <<>> THEN <<>> ELSE Head(parts) \o flatten(Tail(parts))

\* the places of a group string at which a segment begins
SegmentStarts(group) ==
    {i \in 1..Len(group) : ~IsSeparator(group[i]) /\ (i = 1 \/ IsSeparator(group[i - 1]))}

\* C16: sanitizeInput gives what sanitizeInput leaves unchanged, the group parts
\* being joined by either separator; the title it gives is the trimmed title with
\* '-' for every forbidden character, the parts it gives are the non-empty
\* segments of the group with '-' for every forbidden character and every '.'.
SanitizationIdempotent ==
    last.op = "sanitizeInput" =>
        LET safe == [safeTitle |-> last.safeTitle, safeGroupParts |-> last.safeGroupParts]
            kept == SelectSeq(last.group, LAMBDA c : ~IsSeparator(c))
        IN  /\ \A sep \in {"/", "\\"} :
                  sanitizeInput(safe.safeTitle, join(safe.safeGroupParts, <<sep>>)) = safe
            /\ Len(safe.safeTitle) = Len(trim(last.title))
            /\ \A i \in 1..Len(safe.safeTitle) :
                  safe.safeTitle[i] =
                      IF trim(last.title)[i] \in Forbidden THEN "-" ELSE trim(last.title)[i]
            /\ Len(safe.safeGroupParts) = Cardinality(SegmentStarts(last.group))
            /\ \A i \in 1..Len(safe.safeGroupParts) : safe.safeGroupParts[i] # <<>>
            /\ flatten(safe.safeGroupParts) =
                  [i \in 1..Len(kept) |->
                      IF kept[i] \in Forbidden \cup {"."} THEN "-" ELSE kept[i]]

\* the string "./:" was sanitized: '.' stays in the title and is replaced in the
\* group, whose two segments are kept
SanitizationIdempotentWitness ==
    /\ last.op = "sanitizeInput"
    /\ last.title = <<".", "/", ":">>
    /\ last.safeTitle = <<".", "-", "-">>
    /\ last.safeGroupParts = << <<"-">>, <<"-">> >>

\* the skip rule of createNotes: the sanitized title is empty or the first
\* sanitized segment of the group is trash, in any case
Skips(note) ==
    LET s == sanitizeInput(note.title, note.group)
    IN  \/ s.safeTitle = <<>>
        \/ s.safeGroupParts # <<>> /\ toLowerCase(s.safeGroupParts[1]) = trashName

\* C17: an item of a batch that the skip rule refuses is reported in skipped and
\* takes no step; the live tree changes only in a step of an item that is not
\* refused, the trash tree in none; when the batch ends the items that are not
\* refused are processed and their files exist.
CreateSkipRule ==
    [][/\ \A i \in 1..Len(tasks') :
             Skips(tasks'[i].note) =>
                /\ tasks'[i].pc = "skipped"
                /\ \E k \in 1..Len(last'.skipped) :
                      last'.skipped[k] = [title |-> tasks'[i].note.title,
                                          group |-> tasks'[i].note.group]
       /\ notes' # notes =>
             \E i \in 1..Len(tasks) : tasks'[i] # tasks[i] /\ ~Skips(tasks[i].note)
       /\ trash' = trash
       /\ (tasks # <<>> /\ tasks' = <<>>) =>
             \A i \in 1..Len(tasks) :
                ~Skips(tasks[i].note) =>
                    /\ tasks[i].pc = "processed"
                    /\ taskFilePath(tasks[i]) \in DOMAIN notes.files
                    /\ \E k \in 1..Len(last.processed) :
                          last.processed[k].title = tasks[i].safeTitle]_vars

\* a batch of a note for the group Trash and a note for the group W has ended: one
\* is reported skipped, the other processed, and no directory trash exists
CreateSkipRuleWitness ==
    /\ Len(tasks) = 2
    /\ tasks[1].pc = "processed"
    /\ tasks[2].pc = "skipped" /\ tasks[2].note.group = TrashGroup
    /\ Len(last.processed) = 1 /\ Len(last.skipped) = 1
    /\ taskFilePath(tasks[1]) \in DOMAIN notes.files
    /\ \A d \in notes.dirs : d # <<>> => toLowerCase(d[1]) # trashName

\* C18: every directory and file of the live tree lies beneath the root, by names
\* that are neither '.' nor '..' nor hold a separator, and the root has no
\* directory trash, in any case.
PathContainment ==
    /\ \A p \in notes.dirs \cup DOMAIN notes.files :
          \A i \in 1..Len(p) :
             /\ p[i] \notin {<<>>, <<".">>, <<".", ".">>}
             /\ \A k \in 1..Len(p[i]) : ~IsSeparator(p[i][k])
    /\ \A f \in DOMAIN notes.files : Len(f) >= 1 /\ DirOf(f) \in notes.dirs
    /\ \A d \in notes.dirs : Len(d) = 1 => toLowerCase(d[1]) # trashName

\* a note of title '..' for the group '../..' was written: into the directory
\* --/-- of the live tree
PathContainmentWitness ==
    /\ last.op = "createNotes"
    /\ last.group = DotsGroup
    /\ last.processed # <<>>
    /\ <<<<"-", "-">>, <<"-", "-">>, noteFileName(DotsTitle)>> \in DOMAIN notes.files
    /\ \E n \in getAllNotes(FALSE).notes : n.group = <<"-", "-", "/", "-", "-">>

\* C20: a createNotes call that finds a document writes the versions the document
\* had, unchanged and in their order, behind one new version at index 0; a call
\* that finds none writes one version; no other file changes.
AppendOnlyHistory ==
    [][(IsCall /\ last'.op = "createNotes" /\ last'.processed # <<>>) =>
        \E f \in DOMAIN notes'.files :
            /\ \A g \in DOMAIN notes.files \ {f} :
                  g \in DOMAIN notes'.files /\ notes'.files[g] = notes.files[g]
            /\ DOMAIN notes'.files = DOMAIN notes.files \cup {f}
            /\ LET after == notes'.files[f].value.versions
               IN  IF f \in DOMAIN notes.files
                   THEN /\ Len(after) = Len(notes.files[f].value.versions) + 1
                        /\ Tail(after) = notes.files[f].value.versions
                        /\ Head(after) = [content |-> GivenContent(last'.content),
                                          createdDate |-> last'.t1]
                   ELSE after = <<[content |-> GivenContent(last'.content),
                                   createdDate |-> last'.t1]>>]_vars

\* three calls on a new path left a document of three versions, the newest first
AppendOnlyHistoryWitness ==
    /\ last.op = "createNotes"
    /\ last.processed # <<>>
    /\ calls = 3
    /\ \E f \in DOMAIN notes.files :
          /\ Len(notes.files[f].value.versions) = 3
          /\ notes.files[f].value.versions[1].content = GivenContent(last.content)
          /\ notes.files[f].value.versions[1].content # notes.files[f].value.versions[2].content
          /\ notes.files[f].value.versions[3].createdDate
                < notes.files[f].value.versions[1].createdDate

\* the last call listed a tree that exists, its date bounds, if any, being of the
\* formats YYYY-MM-DD and ISO 8601
ListedValidDates ==
    /\ last.op = "getAllNotes"
    /\ <<>> \in (IF last.body.deleted THEN trash ELSE notes).dirs
    /\ \A key \in {"createdAfter", "createdBefore"} :
          HasBound(last.body, key) => last.body[key] \in {DayString, IsoString, IsoStringLater}

\* the tree the last call listed
ListedTree == IF last.body.deleted THEN trash ELSE notes

\* C24: under a createdBefore or createdAfter bound no note is listed whose
\* document has no createdDate, an empty one or one that is no date.
UsableCreatedDateRequired ==
    (/\ ListedValidDates
     /\ last.error = ""
     /\ HasBound(last.body, "createdAfter") \/ HasBound(last.body, "createdBefore")) =>
        \A n \in last.result :
            LET doc == ListedTree.files[n.filePath].value
            IN  /\ "createdDate" \in DOMAIN doc
                /\ doc.createdDate \notin {0, InvalidDateValue}

\* C25: a listing with valid date bounds, of a tree that holds a .json file whose
\* JSON is no document, raises no error and lists no file that has no title.
InvalidFileNeverAborts ==
    ListedValidDates =>
        /\ last.error = ""
        /\ last.status = 200
        /\ \A n \in last.result : "title" \in DOMAIN ListedTree.files[n.filePath].value

\* C26: getAllNotes(null, viewTrash = true) returns a note for every document
\* under the trash root, those under its directory trash among them.
TrashListingComplete ==
    (last.op = "getAllNotes" /\ last.body = [deleted |-> TRUE] /\ last.error = "") =>
        {n.filePath : n \in last.result}
            = {f \in DOMAIN trash.files :
                  /\ toLowerCase(extname(f[Len(f)])) = jsonExt
                  /\ trash.files[f].kind = "json"}

\* the group and the title a filter list asks for, told from the document and
\* its place in the tree
GroupSupplied(body) == "groups" \in DOMAIN body /\ body.groups # <<>>
TitleSupplied(body) == "titles" \in DOMAIN body /\ body.titles # <<>>

GroupOk(f, body) ==
    GroupSupplied(body) =>
        \E i \in 1..Len(body.groups) :
            /\ Len(body.groups[i]) = Len(join(DirOf(f), pathSep))
            /\ \A k \in 1..Len(body.groups[i]) :
                  IF IsSeparator(body.groups[i][k])
                  THEN join(DirOf(f), pathSep)[k] = pathSep[1]
                  ELSE join(DirOf(f), pathSep)[k] = body.groups[i][k]

TitleOk(doc, body) ==
    TitleSupplied(body) =>
        /\ "title" \in DOMAIN doc
        /\ \E i \in 1..Len(body.titles) :
            \E at \in 0..(Len(doc.title) - Len(body.titles[i])) :
                \A k \in 1..Len(body.titles[i]) :
                    toLowerCase(<<doc.title[at + k]>>) = toLowerCase(<<body.titles[i][k]>>)

DateOk(doc, body) ==
    (HasBound(body, "createdAfter") \/ HasBound(body, "createdBefore")) =>
        /\ "createdDate" \in DOMAIN doc /\ doc.createdDate > 0
        /\ HasBound(body, "createdAfter") => doc.createdDate > BoundTime(body.createdAfter)
        /\ HasBound(body, "createdBefore") => doc.createdDate < BoundTime(body.createdBefore)

\* the createdDate of the document is a string that is no date
DateUnparsed(doc) == "createdDate" \in DOMAIN doc /\ doc.createdDate = InvalidDateValue

\* C27: a getAllNotes call that returns gives exactly the notes of the unfiltered
\* listing that pass every filter supplied: groups by a group equal to one of the
\* strings given, separators normalized and case kept; titles by a title that
\* holds one of the strings given, case ignored; the date bounds by a createdDate
\* strictly between them. A list that is absent or empty restricts nothing. (A
\* document whose createdDate is no date is left to the date filter: whether
\* listed or not, it passes the other filters when listed.)
FiltersConjunctive ==
    (ListedValidDates /\ last.error = "") =>
      /\ last.result \subseteq notesData(ListedTree).notes
      /\ \A n \in notesData(ListedTree).notes :
            LET doc == ListedTree.files[n.filePath].value
                dated == HasBound(last.body, "createdAfter") \/ HasBound(last.body, "createdBefore")
                listed == \E m \in last.result : m.filePath = n.filePath
            IN  IF dated /\ DateUnparsed(doc)
                THEN listed => GroupOk(n.filePath, last.body) /\ TitleOk(doc, last.body)
                ELSE listed <=> /\ GroupOk(n.filePath, last.body)
                                /\ TitleOk(doc, last.body)
                                /\ DateOk(doc, last.body)

\* the filters groups ['W'] and titles ['a'] listed the note AB of the group W and
\* left out the note 'a' of the root, which the titles filter alone would keep
FiltersConjunctiveWitness ==
    /\ last.op = "getAllNotes"
    /\ last.error = ""
    /\ last.body = [deleted |-> FALSE, groups |-> << <<"W">> >>, titles |-> << <<"a">> >>]
    /\ \E n \in last.result : n.title = <<"A", "B">> /\ n.group = <<"W">>
    /\ \E n \in notesData(notes).notes : n.title = <<"a">> /\ n.group = <<>>
    /\ \A n \in last.result : n.group = <<"W">>

\* C28: a deleteNote that succeeds takes one file out of the live tree, leaves
\* every other file as it was and leaves every directory of the live tree in
\* place, the directory of the file among them.
DeleteDoesNotPrune ==
    [][(IsCall /\ last'.op = "deleteNote" /\ last'.error = "") =>
        /\ notes'.dirs = notes.dirs
        /\ \E f \in DOMAIN notes.files :
              /\ DOMAIN notes'.files = DOMAIN notes.files \ {f}
              /\ DirOf(f) \in notes'.dirs
              /\ \A g \in DOMAIN notes'.files : notes'.files[g] = notes.files[g]]_vars

\* the last note of a group was deleted; the group is a live directory that holds
\* neither a file nor a directory
DeleteDoesNotPruneWitness ==
    /\ last.op = "deleteNote"
    /\ last.error = ""
    /\ \E f \in DOMAIN trash.files :
          /\ DirOf(f) # <<>>
          /\ LowerPath(DirOf(f)) = LowerPath(sanitizeInput(last.title, last.group).safeGroupParts)
          /\ DirOf(f) \in notes.dirs
          /\ \A p \in (DOMAIN notes.files \cup notes.dirs) \ {DirOf(f)} : ~IsPrefix(DirOf(f), p)

\* C29: a deleteNote that fails, for a title that is empty when trimmed or for a
\* note that is not found, changes neither the live tree nor the trash tree: no
\* trash root and no trash directory is made.
FailedDeleteChangesNothing ==
    [][(IsCall /\ last'.op = "deleteNote" /\ last'.error # "") =>
        /\ last'.error \in {"Invalid title provided for deletion", "Note not found"}
        /\ notes' = notes
        /\ trash' = trash]_vars

\* a deleteNote for a group that exists and holds no such note failed with the
\* not-found error, and there is no trash root
FailedDeleteChangesNothingWitness ==
    /\ last.op = "deleteNote"
    /\ last.error = "Note not found"
    /\ trash = AbsentTree
    /\ sanitizeInput(last.title, last.group).safeGroupParts # <<>>
    /\ \E d \in notes.dirs :
          LowerPath(d) = LowerPath(sanitizeInput(last.title, last.group).safeGroupParts)

\* C30: a deleteNote whose group names, in another casing, the directory of a live
\* note of its title succeeds; the file leaves the live tree and is in the trash
\* tree under the path it had in the live tree, not under the casing asked for.
DeleteMirrorsResolvedPath ==
    [][(/\ IsCall /\ last'.op = "deleteNote"
        /\ sanitizeInput(last'.title, last'.group).safeTitle # <<>>
        /\ \E f \in LiveMatches(last'.title, last'.group) :
              DirOf(f) # sanitizeInput(last'.title, last'.group).safeGroupParts) =>
        LET s == sanitizeInput(last'.title, last'.group)
            asked == Append(s.safeGroupParts, noteFileName(s.safeTitle))
        IN  /\ last'.error = ""
            /\ \E f \in LiveMatches(last'.title, last'.group) :
                  /\ f \notin DOMAIN notes'.files
                  /\ f \in DOMAIN trash'.files
                  /\ trash'.files[f] = notes.files[f]
                  /\ DOMAIN trash'.files = DOMAIN trash.files \cup {f}
                  /\ trash'.dirs = trash.dirs \cup Prefixes(DirOf(f))
            /\ asked \in DOMAIN trash'.files => asked \in DOMAIN trash.files]_vars

\* a note of the group W/w was deleted by the group w/W and lies under W/w in the
\* trash tree, which has no directory w
DeleteMirrorsResolvedPathWitness ==
    /\ last.op = "deleteNote"
    /\ last.error = ""
    /\ sanitizeInput(last.title, last.group).safeGroupParts = <<<<"w">>, <<"W">>>>
    /\ <<<<"W">>, <<"w">>, noteFileName(sanitizeInput(last.title, last.group).safeTitle)>>
          \in DOMAIN trash.files
    /\ <<<<"w">>>> \notin trash.dirs

\* the number of places of a sequence that hold x
Count(q, x) == Cardinality({k \in 1..Len(q) : q[k] = x})

\* the call of the batch returns in this step
Returns == tasks # <<>> /\ tasks' = <<>>

\* the item j of the batch takes this step
Steps(j) == Len(tasks') = Len(tasks) /\ j \in 1..Len(tasks) /\ tasks'[j] # tasks[j]

\* C21: createNotes returns when every item of the batch has ended; what it
\* returns counts every note of the batch once, the processed ones under their
\* title and resolved group and the others as they were given, so that processed
\* and skipped together are as many as the notes; and the write that ends an item
\* as processed leaves at its resolved path a document whose newest version
\* holds the content of the note.
BatchJoinPartition ==
    [][/\ Returns =>
             /\ \A i \in 1..Len(tasks) : taskEnded(tasks[i])
             /\ Len(last.processed) + Len(last.skipped) = Len(tasks)
             /\ \A i \in 1..Len(tasks) :
                   IF tasks[i].pc = "processed"
                   THEN LET p == [title |-> tasks[i].safeTitle,
                                  group |-> join(tasks[i].actual, pathSep)]
                        IN  Count(last.processed, p)
                              = Cardinality({k \in 1..Len(tasks) :
                                    /\ tasks[k].pc = "processed"
                                    /\ tasks[k].safeTitle = p.title
                                    /\ tasks[k].actual = tasks[i].actual})
                   ELSE LET n == [title |-> tasks[i].note.title,
                                  group |-> tasks[i].note.group]
                        IN  Count(last.skipped, n)
                              = Cardinality({k \in 1..Len(tasks) :
                                    /\ tasks[k].pc = "skipped"
                                    /\ tasks[k].note.title = n.title
                                    /\ tasks[k].note.group = n.group})
       /\ \A j \in 1..Len(tasks) :
             (Steps(j) /\ tasks'[j].pc = "processed") =>
                LET f == taskFilePath(tasks'[j])
                IN  /\ f \in DOMAIN notes'.files
                    /\ notes'.files[f].kind = "json"
                    /\ notes'.files[f].value.versions[1].content
                          = GivenContent(tasks[j].note.content)]_vars

\* a batch of two notes has ended, one processed and one skipped, each reported
\* once, and the file of the processed note holds its content
BatchJoinPartitionWitness ==
    /\ Len(tasks) = 2
    /\ \A i \in 1..2 : taskEnded(tasks[i])
    /\ \E i, j \in 1..2 :
          /\ tasks[i].pc = "processed" /\ tasks[j].pc = "skipped"
          /\ notes.files[taskFilePath(tasks[i])].value.versions[1].content
                = GivenContent(tasks[i].note.content)
    /\ Len(last.processed) = 1 /\ Len(last.skipped) = 1

\* what stands at the place of a note so that mkdir, the read or the write fails:
\* a file on the way of the directory, a directory or an unreadable file at the
\* path of the file, a read-only file there
IOFails(tree, task) ==
    \/ \E p \in Prefixes(task.actual) : p \in DOMAIN tree.files
    \/ taskFilePath(task) \in tree.dirs
    \/ /\ taskFilePath(task) \in DOMAIN tree.files
       /\ \/ tree.files[taskFilePath(task)].kind = "unreadable"
          \/ "readonly" \in DOMAIN tree.files[taskFilePath(task)]

\* the file at the place of the note holds the JSON null
NullFile(tree, task) ==
    /\ taskFilePath(task) \in DOMAIN tree.files
    /\ tree.files[taskFilePath(task)].kind = "null"

\* C22: a note of a batch whose mkdir, read or write fails is reported in skipped
\* when createNotes returns, which it does without an error; its item changes
\* nothing in the tree; every other note that passes the skip rule is processed
\* and reported so, its file being in the tree.
ItemFailureContained ==
    [][/\ Returns =>
             /\ last.error = ""
             /\ \A i \in 1..Len(tasks) :
                   IF IOFails(notes, tasks[i])
                   THEN /\ tasks[i].pc = "skipped"
                        /\ Count(last.skipped, [title |-> tasks[i].note.title,
                                                 group |-> tasks[i].note.group]) >= 1
                   ELSE (~Skips(tasks[i].note) /\ ~NullFile(notes, tasks[i])) =>
                        /\ tasks[i].pc = "processed"
                        /\ taskFilePath(tasks[i]) \in DOMAIN notes.files
                        /\ Count(last.processed,
                                 [title |-> tasks[i].safeTitle,
                                  group |-> join(tasks[i].actual, pathSep)]) >= 1
       /\ \A j \in 1..Len(tasks) :
             (Steps(j) /\ tasks'[j].pc = "skipped") => notes' = notes
       /\ \A j \in 1..Len(tasks) :
             (Steps(j) /\ notes' # notes) =>
                /\ Len(tasks'[j].actual) = Len(tasks'[j].parts)
                /\ ~IOFails(notes', tasks'[j])]_vars

\* a batch of two notes has ended: the note whose file cannot be read is skipped
\* with the error of the read and the tree holds the file of the other note, which
\* is processed
ItemFailureContainedWitness ==
    /\ Len(tasks) = 2
    /\ \E i, j \in 1..2 :
          /\ tasks[i].pc = "skipped" /\ tasks[i].error = "EACCES"
          /\ notes.files[taskFilePath(tasks[i])].kind = "unreadable"
          /\ tasks[j].pc = "processed"
          /\ taskFilePath(tasks[j]) \in DOMAIN notes.files
    /\ Len(last.processed) = 1 /\ Len(last.skipped) = 1

\* the document a create writes where it finds none it can use
FreshDocument(task) ==
    [title |-> task.safeTitle, group |-> join(task.actual, pathSep),
     relativePath |-> join(taskFilePath(task), pathSep), createdDate |-> now,
     versions |-> <<[content |-> GivenContent(task.note.content), createdDate |-> now]>>]

\* the item j reads, in this step, a file of one of the kinds given; or writes
\* over one
ReadsKind(j, kinds) ==
    /\ Steps(j) /\ tasks[j].pc = "readFile"
    /\ taskFilePath(tasks[j]) \in DOMAIN notes.files
    /\ notes.files[taskFilePath(tasks[j])].kind \in kinds
WritesOverKind(j, kinds) ==
    /\ Steps(j) /\ tasks[j].pc = "writeFile"
    /\ taskFilePath(tasks[j]) \in DOMAIN notes.files
    /\ notes.files[taskFilePath(tasks[j])].kind \in kinds

\* the item goes on with a fresh document; its write puts that document into the
\* file and reports the note processed
ReplacesKinds(kinds) ==
    \A j \in 1..Len(tasks) :
        /\ ReadsKind(j, kinds) =>
              tasks'[j].pc = "writeFile" /\ tasks'[j].data = FreshDocument(tasks[j])
        /\ WritesOverKind(j, kinds) =>
              /\ tasks'[j].pc = "processed"
              /\ notes'.files[taskFilePath(tasks[j])] = JSONstringify(FreshDocument(tasks[j]))
              /\ Len(last'.processed) = Len(last.processed) + 1

\* C23: a create that finds at the resolved path a file that cannot be read, a
\* file that is no JSON or the JSON null writes a fresh document with one version
\* and a new createdDate into it and reports the note processed.
CreateOverUnusableFile == [][ReplacesKinds({"unreadable", "text", "null"})]_vars

\* C23, as amended: a create that finds at the resolved path a file that is no
\* JSON writes a fresh document with one version and a new createdDate into it and
\* reports the note processed; a create that finds a file that cannot be read or
\* that holds the JSON null reports the note skipped and leaves the file as it is.
CreateOverMalformedFile ==
    [][/\ ReplacesKinds({"text"})
       /\ \A j \in 1..Len(tasks) :
             ReadsKind(j, {"unreadable", "null"}) =>
                /\ tasks'[j].pc = "skipped"
                /\ notes' = notes
                /\ Len(last'.skipped) = Len(last.skipped) + 1]_vars

\* a note was processed over a file that was no JSON: the file holds a document
\* of one version, created at the time of the call, later than the old document
CreateOverMalformedFileWitness ==
    \E j \in 1..Len(tasks) :
        /\ tasks[j].pc = "processed"
        /\ tasks[j].error = "SyntaxError"
        /\ notes.files[taskFilePath(tasks[j])] = JSONstringify(tasks[j].data)
        /\ Len(tasks[j].data.versions) = 1
        /\ tasks[j].data.createdDate = now
        /\ tasks[j].data.createdDate > FaultDoc.createdDate

\* C31: deleteEmptyGroup takes the sanitized segments as the path: when no
\* directory has that path and a directory has it in another casing, which is the
\* directory createNotes and deleteNote resolve the group to, the call fails with
\* the not-found error (404) and removes nothing.
GroupDeleteWithoutCaseReuse ==
    [][(/\ IsCall /\ last'.op = "deleteEmptyGroup"
        /\ sanitizeInput(<<>>, last'.group).safeGroupParts \notin notes.dirs
        /\ \E d \in notes.dirs :
              LowerPath(d) = LowerPath(sanitizeInput(<<>>, last'.group).safeGroupParts)) =>
        LET groupPath == sanitizeInput(<<>>, last'.group).safeGroupParts
        IN  /\ last'.error = "Group not found"
            /\ deleteStatus(last'.error) = 404
            /\ notes' = notes
            /\ trash' = trash
            /\ \A d \in determineTargetPath(notes, groupPath) :
                  d \in notes.dirs /\ d # groupPath]_vars

\* deleteEmptyGroup for W\w failed with the not-found error while the directory
\* w/W exists and is empty
GroupDeleteWithoutCaseReuseWitness ==
    /\ last.op = "deleteEmptyGroup"
    /\ last.error = "Group not found"
    /\ sanitizeInput(<<>>, last.group).safeGroupParts = <<<<"W">>, <<"w">>>>
    /\ <<<<"w">>, <<"W">>>> \in notes.dirs
    /\ readdir(notes, <<<<"w">>, <<"W">>>>).entries = {}

\* C38: a createNotes call that writes a note where the live tree has no file and
\* the trash tree holds the document deleted from that path writes a document of
\* one version, the content and the time of the call, whose createdDate is read
\* from the clock in the call, and changes nothing in the trash tree.
RecreationStartsNewHistory ==
    [][(IsCall /\ last'.op = "createNotes" /\ last'.processed # <<>>) =>
        \A f \in DOMAIN notes'.files \ DOMAIN notes.files :
            f \in DOMAIN trash.files =>
                /\ notes'.files[f].kind = "json"
                /\ notes'.files[f].value.versions
                      = <<[content |-> GivenContent(last'.content), createdDate |-> last'.t1]>>
                /\ notes'.files[f].value.createdDate = last'.t2
                /\ last'.t2 = now'
                /\ notes'.files[f].value.createdDate >= trash.files[f].value.createdDate
                /\ trash' = trash]_vars

\* a note of two versions was deleted and created again: the live document has
\* one version and a later createdDate, the trashed one has its two versions
RecreationStartsNewHistoryWitness ==
    /\ last.op = "createNotes"
    /\ last.processed # <<>>
    /\ \E f \in DOMAIN notes.files \cap DOMAIN trash.files :
          /\ Len(notes.files[f].value.versions) = 1
          /\ Len(trash.files[f].value.versions) = 2
          /\ notes.files[f].value.createdDate > trash.files[f].value.createdDate
          /\ notes.files[f].value.createdDate = last.t2

\* C34: findEmptyDirsRecursive on the live tree reports exactly the directories,
\* baseDir and those under its directory trash apart, beneath which there is no
\* file: a directory that holds nothing but empty directories is reported with
\* them.
EmptyDetectionRecursive ==
    LET found == findEmptyDirsRecursive(notes, <<>>, <<>>, {trashName})
    IN  /\ found.code = "OK"
        /\ found.emptyDirs =
              {d \in notes.dirs :
                  /\ d # <<>>
                  /\ d[1] # trashName
                  /\ \A f \in DOMAIN notes.files : ~IsPrefix(d, f)}

\* the statistics agree with the listings of the roots that exist
StatsAgree(notesTree, trashTree) ==
    LET st == getStats(notesTree, trashTree)
    IN  /\ st.error = ""
        /\ <<>> \in notesTree.dirs =>
              /\ notesData(notesTree).code = "OK"
              /\ st.stats.noteCount = Cardinality(notesData(notesTree).notes)
        /\ <<>> \in trashTree.dirs =>
              /\ notesData(trashTree).code = "OK"
              /\ st.stats.trashCount = Cardinality(notesData(trashTree).notes)

\* C36: in every state the API reaches, noteCount of getStats is the number of
\* notes of the live listing and trashCount the number of notes of the trash
\* listing, for the roots that exist; a deleteNote that succeeds makes noteCount
\* one less and trashCount the same or one more.
StatsAgreeWithListings ==
    [][/\ StatsAgree(notes, trash)
       /\ StatsAgree(notes', trash')
       /\ (IsCall /\ last'.op = "deleteNote" /\ last'.error = "") =>
             /\ getStats(notes', trash').stats.noteCount
                   = getStats(notes, trash).stats.noteCount - 1
             /\ getStats(notes', trash').stats.trashCount
                   \in {getStats(notes, trash).stats.trashCount,
                        getStats(notes, trash).stats.trashCount + 1}]_vars

\* after a deleteNote one note is live, in a group, and one is in the trash, as
\* the statistics and the listings say
StatsAgreeWithListingsWitness ==
    /\ last.op = "deleteNote"
    /\ last.error = ""
    /\ getStats(notes, trash).stats.noteCount = 1
    /\ getStats(notes, trash).stats.trashCount = 1
    /\ Cardinality(getAllNotes(TRUE).notes) = 1
    /\ \E n \in getAllNotes(FALSE).notes : n.group # <<>>

\* every group the statistics report empty can be deleted
EmptyGroupsDeletable(notesTree, trashTree) ==
    LET st == getStats(notesTree, trashTree)
    IN  /\ st.error = ""
        /\ \A p \in st.stats.emptyGroups :
              LET o == deleteEmptyGroup(notesTree, p)
                  groupPath == sanitizeInput(<<>>, p).safeGroupParts
              IN  /\ o.error = ""
                  /\ groupPath \in notesTree.dirs
                  /\ o.tree.dirs = notesTree.dirs \ {groupPath}
                  /\ o.tree.files = notesTree.files
                  /\ getStats(o.tree, trashTree).error = ""
                  /\ p \notin getStats(o.tree, trashTree).stats.emptyGroups

\* C37: in every state the API reaches, deleteEmptyGroup of a path that getStats
\* reports in emptyGroups succeeds, removes that directory and nothing else, and
\* the path is not reported afterwards; a deleteNote that takes the last entry out
\* of a group of one segment leaves the group reported in emptyGroups.
ReportedGroupsDeletable ==
    [][/\ EmptyGroupsDeletable(notes, trash)
       /\ EmptyGroupsDeletable(notes', trash')
       /\ (IsCall /\ last'.op = "deleteNote" /\ last'.error = "") =>
             \A f \in DOMAIN notes.files \ DOMAIN notes'.files :
                 (Len(f) = 2 /\ readdir(notes', DirOf(f)).entries = {}) =>
                    join(DirOf(f), pathSep) \in getStats(notes', trash').stats.emptyGroups]_vars

\* the one note of a group of one segment was deleted and the statistics report
\* the group, and nothing else, as empty
ReportedGroupsDeletableWitness ==
    /\ last.op = "deleteNote"
    /\ last.error = ""
    /\ getStats(notes, trash).stats.emptyGroups = {<<"W">>}
    /\ <<<<"W">>, noteFileName(sanitizeInput(last.title, last.group).safeTitle)>>
          \in DOMAIN trash.files

-----------------------------------------------------------------------------
(* C35: a root that does not exist is an error for getAllNotes only: getStats *)
(* fails exactly when a directory below a root cannot be read for another     *)
(* reason, and where it succeeds the counts and the size of a missing root    *)
(* are 0 and a missing live root has no empty group; getAllNotes on a missing *)
(* root answers 404.                                                          *)

\* a directory of the tree cannot be read although it exists
Unreadable(tree) == "locked" \in DOMAIN tree /\ tree.locked \cap tree.dirs # {}

Missing(tree) == <<>> \notin tree.dirs

MissingRootOnlyFailsListing ==
    /\ last.op = "getStats" =>
          /\ last.error = "" <=> ~Unreadable(notes) /\ ~Unreadable(trash)
          /\ last.error # "" => last.error = "Failed to calculate statistics" /\ last.status = 500
          /\ last.error = "" /\ Missing(notes) =>
                /\ last.stats.noteCount = 0
                /\ last.stats.groupCount = 0
                /\ last.stats.emptyGroups = {}
                /\ last.stats.notesSize = 0
          /\ last.error = "" /\ Missing(trash) =>
                /\ last.stats.trashCount = 0
                /\ last.stats.trashSize = 0
    /\ last.op = "getAllNotes" /\ Missing(IF last.body.deleted THEN trash ELSE notes) =>
          last.error = "ENOENT" /\ last.status = 404

\* getStats succeeded without a live root and counted the note of the trash
MissingRootOnlyFailsListingWitness ==
    /\ last.op = "getStats"
    /\ last.error = ""
    /\ Missing(notes)
    /\ last.stats.trashCount = 1
    /\ last.stats.trashSize > 0
    /\ notesData(notes).code = "ENOENT"

-----------------------------------------------------------------------------
(* C32: emptyTrash returns the number of .json files the trash held when it   *)
(* counted them, removes the trash tree in a later step, and never returns    *)
(* more than the removal took away; a deleteNote between the two steps makes  *)
(* it return less.                                                            *)

JsonFilesOf(tree) ==
    {f \in DOMAIN tree.files : toLowerCase(extname(f[Len(f)])) = jsonExt}

PurgeCountsBeforeRemoving ==
    [][/\ (tasks # <<>> /\ tasks[1].pc = "count" /\ tasks' # tasks) =>
            /\ tasks'[1].pc = "rm"
            /\ tasks'[1].deletedCount = Cardinality(JsonFilesOf(trash))
            /\ trash' = trash
       /\ (tasks # <<>> /\ tasks[1].pc = "rm" /\ tasks' = <<>>) =>
            /\ last'.op = "emptyTrash"
            /\ last'.error = ""
            /\ last'.deletedCount = tasks[1].deletedCount
            /\ last'.destroyed = Cardinality(JsonFilesOf(trash))
            /\ last'.deletedCount <= last'.destroyed
            /\ trash' = AbsentTree]_vars

\* the call returned a count smaller than the number of files it removed
PurgeCountsBeforeRemovingWitness ==
    /\ last.op = "emptyTrash"
    /\ "destroyed" \in DOMAIN last
    /\ last.deletedCount >= 1
    /\ last.deletedCount < last.destroyed
    /\ trash = AbsentTree

-----------------------------------------------------------------------------
(* C33: a purge of an existing trash tree leaves no trash root; without a     *)
(* trash root the trash listing answers 404, and the root stays away until a  *)
(* deleteNote succeeds; a deleteNote that succeeds adds the note it moved to  *)
(* the trash listing, in the place of the note listed for the same file, so   *)
(* that the listing shows the notes deleted since the purge, each once.       *)

TrashRootAbsentAfterPurge ==
    [][/\ Missing(trash) <=> deletes = 0
       /\ Missing(trash) =>
            /\ getAllNotes(TRUE).code = "ENOENT"
            /\ listStatus(getAllNotes(TRUE).code) = 404
       /\ (IsCall /\ last'.op = "emptyTrash" /\ ~Missing(trash)) =>
            last'.error = "" /\ Missing(trash')
       /\ (Missing(trash) /\ ~(IsCall /\ last'.op = "deleteNote" /\ last'.error = "")) =>
            Missing(trash')
       /\ (IsCall /\ last'.op = "deleteNote" /\ last'.error = "") =>
            /\ getAllNotes(TRUE)'.code = "OK"
            /\ \A f \in LiveMatches(last'.title, last'.group) :
                  getAllNotes(TRUE)'.notes
                    = (getAllNotes(TRUE).notes \ ListedAt(getAllNotes(TRUE), f))
                        \cup ListedAt(getAllNotes(FALSE), f)
       /\ ~mixed' => Cardinality(getAllNotes(TRUE)'.notes) = deletes']_vars

\* after a purge that removed the trashed note of the root, the note of the
\* group W was deleted: the trash listing shows it and nothing else
TrashRootAbsentAfterPurgeWitness ==
    /\ last.op = "deleteNote"
    /\ last.error = ""
    /\ ~mixed
    /\ deletes = 1
    /\ RootFile \in DOMAIN notes.files
    /\ getAllNotes(TRUE).code = "OK"
    /\ \E n \in getAllNotes(TRUE).notes :
          /\ getAllNotes(TRUE).notes = {n}
          /\ n.filePath = FaultFile

====
